---- MODULE Spec2Model ----
(***************************************************************************)
(* A model of the lektor-groupby plugin: the package lektor_groupby/       *)
(* (Config, Watcher, GroupBy, Resolver, pruner, plugin hooks) and the      *)
(* single-file plugin lektor_groupby.py (GroupByConfig, GroupByWatcher,    *)
(* GroupByCreator, GroupByPruner).                                         *)
(*                                                                         *)
(* Python strings are sequences of one-character strings, so that          *)
(* startswith, rstrip, strip and concatenation are computed as the code    *)
(* computes them.  A few multi-character strings that the code only ever   *)
(* adds or compares as a whole ("@groupby", "index.html", "{key}", a       *)
(* config key such as "tag") are single elements of such a sequence.       *)
(***************************************************************************)
EXTENDS Integers, Sequences, FiniteSets, TLC

VARIABLES
    \* ---- should_process on its own (SpecPath)
    spRoot,      \* the root as given to Config(root=...) / GroupByConfig(root=...)
    spPath,      \* node['_path'] of the record
    spOut,       \* <<result>> of Watcher.should_process (package), <<>> before
    spOutSingle  \* <<result>> of GroupByWatcher.should_process (single file)

VARIABLES
    \* ---- the site and the watchers (SpecWatcher, Spec, SpecCreator)
    site,        \* record path -> the marked fields of the record, each field
                 \* the values the grouping callback yields for it
    wcfg,        \* the configs of the registered watchers, in registration order
    wst,         \* watcher -> its State: [processed, state]
    failed,      \* an exception has left the build pass
    plog         \* SpecWatcher: one entry per Watcher.process call

VARIABLES
    \* ---- one GroupBySource of vobj.py while it is filled (SpecChild)
    gsrc         \* [children, key_obj_map, finalized, query, key_obj]

VARIABLES
    \* ---- the orchestrator and the plugin hooks (Spec, SpecCreator)
    plan,         \* the watchers the site registers: quick config, other plugins
    exists,       \* GroupByRef.of(builder) is set
    pending,      \* GroupBy._watcher / GroupByCreator._watcher: watcher ids
    prePrio,      \* GroupBy._pre_build_priority
    results,      \* GroupBy._results (list) / GroupByCreator._results (dict)
    building,     \* GroupBy._building
    resolver,     \* Resolver._data / GroupByCreator._resolver
    isBuildAll,   \* GroupByPlugin._is_build_all
    hasBeenBuilt, \* GroupByPlugin._has_been_built
    keepAlive,    \* GroupByCreator._weak_ref_keep_alive
    cache         \* GroupByPruner._cache

VARIABLES
    \* ---- the build database and the output folder of the host
    artifacts,    \* rows of the artifacts table: [artifact, source]
    files,        \* the files of the destination folder, by artifact name
    currentUrls,  \* the current_urls handed to the last prune
    pruned,       \* <<to_be_pruned>> of the last prune, <<>> before
    dbBefore      \* <<[artifacts, files, declared]>> as the last prune found them

VARIABLES
    \* ---- what the hooks did so far (history)
    asked,        \* a hook has called _init_once on this builder
    runs,         \* how often queue_all / make_cluster ran
    offers,       \* the should_process calls of the traversal: <<watcher, path>>
    materialized, \* every object make_once / make_cluster has created
    consumed,     \* the watchers make_once has materialized
    lastMake,     \* <<the last make_once call>>
    lastBuild,    \* <<the last build_all call>>
    declared      \* the artifacts the built objects have declared

VARIABLES
    \* ---- one call of a function on its own (SpecCallback, ...)
    callArgs,     \* the arguments of the call (SpecResolver: of the calls so far)
    callResult    \* <<what the call returned>>, <<>> before

pathVars == <<spRoot, spPath, spOut, spOutSingle>>
callVars == <<callArgs, callResult>>
childVars == <<gsrc>>
watcherVars == <<site, wcfg, wst, failed, plog>>
groupbyVars == <<plan, exists, pending, prePrio, results, building, resolver,
                 isBuildAll, hasBeenBuilt, keepAlive, cache>>
hostVars == <<artifacts, files, currentUrls, pruned, dbBefore>>
historyVars == <<asked, runs, offers, materialized, consumed, lastMake, lastBuild,
                 declared>>
orchestratorVars == <<groupbyVars, hostVars, historyVars>>

vars == <<pathVars, watcherVars, childVars, orchestratorVars, callVars>>

\* ------------------------------------------------------------------------
\*   Bounds
\* ------------------------------------------------------------------------

\* longest record path (in characters) drawn as an input of should_process
MaxPathLen == 4

\* Watcher.process calls in one run of SpecWatcher
MaxProcessCalls == 3

\* GroupBySource.append_child calls on one object in SpecChild
MaxAppends == 3

\* ------------------------------------------------------------------------
\*   Python string primitives
\* ------------------------------------------------------------------------

\* Python None (no string of characters equals it)
None == <<"None">>

\* str.startswith
StartsWith(s, pre) ==
    /\ Len(pre) <= Len(s)
    /\ SubSeq(s, 1, Len(pre)) = pre

\* str.endswith
EndsWith(s, suf) ==
    /\ Len(suf) <= Len(s)
    /\ SubSeq(s, Len(s) - Len(suf) + 1, Len(s)) = suf

\* str.rstrip(c)
RECURSIVE RStrip(_, _)
RStrip(s, c) ==
    IF s # <<>> /\ s[Len(s)] = c THEN RStrip(SubSeq(s, 1, Len(s) - 1), c) ELSE s

\* str.lstrip(c)
RECURSIVE LStrip(_, _)
LStrip(s, c) ==
    IF s # <<>> /\ s[1] = c THEN LStrip(Tail(s), c) ELSE s

\* str.strip(c)
Strip(s, c) == LStrip(RStrip(s, c), c)

\* c in s
Contains(s, c) == \E i \in 1..Len(s) : s[i] = c

\* s.rsplit('/', 1)[-1]: the part after the last '/'
RECURSIVE LastSegment(_)
LastSegment(s) ==
    IF s = <<>> \/ s[Len(s)] = "/" THEN <<>>
    ELSE Append(LastSegment(SubSeq(s, 1, Len(s) - 1)), s[Len(s)])

\* the path segments of a path: s.split('/') without the empty parts
RECURSIVE Segments(_)
Segments(s) ==
    IF s = <<>> THEN <<>>
    ELSE IF s[Len(s)] = "/" THEN Segments(SubSeq(s, 1, Len(s) - 1))
    ELSE LET last == LastSegment(s)
         IN  Append(Segments(SubSeq(s, 1, Len(s) - Len(last))), last)

\* ------------------------------------------------------------------------
\*   Config.root and Watcher.should_process
\* ------------------------------------------------------------------------

\* Config.__init__: self.root = (root or '/').rstrip('/') or '/'
ConfigRoot(root) ==
    LET r == RStrip(IF root = <<>> THEN <<"/">> ELSE root, "/")
    IN  IF r = <<>> THEN <<"/">> ELSE r

\* GroupByConfig.__init__: self.root = (root or '/').rstrip('/') + '/'
GroupByConfigRoot(root) ==
    RStrip(IF root = <<>> THEN <<"/">> ELSE root, "/") \o <<"/">>

\* Watcher.should_process / GroupByWatcher.should_process (the same text):
\*   p.startswith(self._root) or p + '/' == self._root
should_process(p, root) ==
    StartsWith(p, root) \/ p \o <<"/">> = root

\* ------------------------------------------------------------------------
\*   The site: records, attachments, assets
\* ------------------------------------------------------------------------

P_root == <<"/">>
P_a    == <<"/", "a">>
P_ab   == <<"/", "a", "b">>          \* a sibling of /a, not under it
P_a_b  == <<"/", "a", "/", "b">>
P_a_f  == <<"/", "a", "/", "f">>     \* an attachment of /a
AssetRoot == <<"@assets">>          \* pad.asset_root: no Record
Asset1    == <<"@assets", "/", "s">>

Records == {P_root, P_a, P_ab, P_a_b, P_a_f}
Nodes   == Records \cup {AssetRoot, Asset1}

\* isinstance(node, Record)
IsRecord(n) == n \in Records

\* hasattr(node, 'attachments'): pages have them, attachments and assets not
HasAttachments(n) == n \in {P_root, P_a, P_ab, P_a_b}

\* node.attachments
AttachmentsOf(n) == IF n = P_a THEN <<P_a_f>> ELSE <<>>

\* node.children
ChildrenOf(n) ==
    CASE n = P_root    -> <<P_a, P_ab>>
      [] n = P_a       -> <<P_a_b>>
      [] n = AssetRoot -> <<Asset1>>
      [] OTHER         -> <<>>

\* builder.pad.get_all_roots()
GetAllRoots == <<P_root, AssetRoot>>

\* every node reachable from the roots through children and attachments
RECURSIVE ReachableFrom(_)
ReachableFrom(n) ==
    {n} \cup UNION {ReachableFrom(ChildrenOf(n)[i]) : i \in 1..Len(ChildrenOf(n))}
        \cup UNION {ReachableFrom(AttachmentsOf(n)[i]) : i \in 1..Len(AttachmentsOf(n))}

Reachable == UNION {ReachableFrom(GetAllRoots[i]) : i \in 1..Len(GetAllRoots)}

\* ---- what a grouping callback yields

YStr(g)      == [kind |-> "str", group |-> g, extra |-> None]
YTuple(g, x) == [kind |-> "tuple", group |-> g, extra |-> x]
\* a yield that is neither str nor tuple (a number, a bool, None)
YOther       == [kind |-> "other", group |-> <<"7">>, extra |-> None]

G_a  == <<"a">>
G_A  == <<"A">>
G_b  == <<"b">>

\* the marked fields a record may carry: each field is the list of values
\* the callback yields for it (for tag in args.field: yield tag)
FieldChoices ==
    { <<>>,
      << <<YStr(G_A)>> >>,
      << <<YStr(G_a), YStr(G_b)>> >>,
      << <<YStr(G_a)>>, <<YTuple(G_a, "x")>> >>,
      << <<YStr(G_b), YOther>> >> }

\* the records whose fields vary; the root page and the attachment carry none
VaryingRecords == {P_a, P_ab, P_a_b}

Sites ==
    {s \in [Records -> FieldChoices] :
        \A r \in Records \ VaryingRecords : s[r] = <<>>}

\* ------------------------------------------------------------------------
\*   Config
\* ------------------------------------------------------------------------

\* str.lower of one character
Lower(c) == CASE c = "A" -> "a" [] c = "B" -> "b" [] OTHER -> c

IsSlugChar(c) == c \in {"a", "b", "c", "t", "0", "1", "2", "7"}

\* lektor.utils.slugify: lower-case, the runs of other characters become
\* one hyphen between words, none at the ends
RECURSIVE SlugWords(_, _, _)
SlugWords(s, out, gap) ==
    IF s = <<>> THEN out
    ELSE LET c == Lower(s[1])
         IN  IF IsSlugChar(c)
             THEN SlugWords(Tail(s),
                     (IF gap /\ out # <<>> THEN Append(out, "-") ELSE out) \o <<c>>,
                     FALSE)
             ELSE SlugWords(Tail(s), out, TRUE)

LektorSlugify(s) == SlugWords(s, <<>>, FALSE)

\* dict.get(k, k)
MapGet(m, k) == IF k \in DOMAIN m THEN m[k] ELSE k

\* Config.slugify: key_map replace, then _slugify(rv) or rv
slugify(cfg, k) ==
    LET rv == MapGet(cfg.key_map, k)
    IN  IF LektorSlugify(rv) # <<>> THEN LektorSlugify(rv) ELSE rv

\* GroupByConfig.slugify: slugify(self.key_map.get(k, k))
GroupByConfig_slugify(cfg, k) == LektorSlugify(MapGet(cfg.key_map, k))

NoKeyMap == [k \in {} |-> <<>>]

\* what a site author (a quick-config section, another plugin) gives for one
\* watcher: slug = <<>> for the default slug, per_page = 0 for no pagination
RawConfig(key, root, slug, enabled, pre_build, per_page) ==
    [key |-> key, root |-> root, slug |-> slug, enabled |-> enabled,
     pre_build |-> pre_build, per_page |-> per_page]

KeyHole == "{key}"

\* Config.__init__ and the fields set after it (from_ini, set_pagination)
Config(raw) ==
    [key |-> raw.key,
     root |-> ConfigRoot(raw.root),
     slug |-> IF raw.slug # <<>> THEN raw.slug ELSE <<raw.key, "/", KeyHole, "/">>,
     enabled |-> raw.enabled, pre_build |-> raw.pre_build,
     per_page |-> raw.per_page, key_map |-> NoKeyMap]

\* GroupByConfig.__init__ of the single file: the default slug is the
\* expression '"<key>/" ~ this.key ~ "/"'; there is no pagination
GroupByConfig(raw) ==
    [key |-> raw.key,
     root |-> GroupByConfigRoot(raw.root),
     slug |-> IF raw.slug # <<>> THEN raw.slug ELSE <<"~ this.key ~", raw.key>>,
     enabled |-> raw.enabled, pre_build |-> FALSE,
     per_page |-> 0, key_map |-> NoKeyMap]

\* ------------------------------------------------------------------------
\*   State and Watcher (watcher.py; the same text in lektor_groupby.py)
\* ------------------------------------------------------------------------

\* State.__init__
NewState == [processed |-> {}, state |-> <<>>]

\* a State that keeps no processed set
StateForgets(st, path) == FALSE

\* State.__contains__: record.path in self._processed
StateContains(st, path) == path \in st.processed

\* index of the entry of `group` in a list of [group |-> ...], 0 if none
IndexOfGroup(entries, group) ==
    IF \E i \in 1..Len(entries) : entries[i].group = group
    THEN CHOOSE i \in 1..Len(entries) : entries[i].group = group
    ELSE 0

IndexOfPath(entries, path) ==
    IF \E i \in 1..Len(entries) : entries[i].path = path
    THEN CHOOSE i \in 1..Len(entries) : entries[i].path = path
    ELSE 0

\* every add starts the group anew: self.state[group_key] = {record: extras}
StateReplace(state, group, path, extras) ==
    LET gi == IndexOfGroup(state, group)
        one == <<[path |-> path, extras |-> extras]>>
    IN  IF gi = 0 THEN Append(state, [group |-> group, children |-> one])
        ELSE [state EXCEPT ![gi].children = one]

\* self.state[group_key][record] = extras  /  self.state[group_key] = {record: extras}
StatePut(state, group, path, extras) ==
    LET gi == IndexOfGroup(state, group)
    IN  IF gi = 0
        THEN Append(state, [group |-> group,
                            children |-> <<[path |-> path, extras |-> extras]>>])
        ELSE LET ci == IndexOfPath(state[gi].children, path)
             IN  IF ci = 0
                 THEN [state EXCEPT ![gi].children =
                          Append(@, [path |-> path, extras |-> extras])]
                 ELSE [state EXCEPT ![gi].children[ci].extras = extras]

RECURSIVE StatePutAll(_, _, _)
StatePutAll(state, path, tmp) ==
    IF tmp = <<>> THEN state
    ELSE StatePutAll(StatePut(state, tmp[1].group, path, tmp[1].extras),
                     path, Tail(tmp))

\* State.add: append the groups of a record if it is not processed already
StateAdd(st, path, tmp) ==
    IF path \notin st.processed
    THEN [processed |-> st.processed \cup {path},
          state     |-> StatePutAll(st.state, path, tmp)]
    ELSE st

\* the body of the while loop of process for one yielded obj:
\*   if group not in tmp: tmp[group] = []
\*   if isinstance(obj, tuple): tmp[group].append(obj[1])
TmpAdd(tmp, obj) ==
    LET gi   == IndexOfGroup(tmp, obj.group)
        tmp1 == IF gi = 0
                THEN Append(tmp, [group |-> obj.group, extras |-> <<>>])
                ELSE tmp
        gj   == IndexOfGroup(tmp1, obj.group)
    IN  IF obj.kind = "tuple"
        THEN [tmp1 EXCEPT ![gj].extras = Append(@, obj.extra)]
        ELSE tmp1

\* not isinstance(obj, (str, tuple))
Unsupported(obj) == obj.kind \notin {"str", "tuple"}

\* one generator of the callback, driven to its end or to the TypeError
RECURSIVE RunGenerator(_, _)
RunGenerator(yields, tmp) ==
    IF yields = <<>> THEN [tmp |-> tmp, raised |-> FALSE]
    ELSE IF Unsupported(yields[1]) THEN [tmp |-> tmp, raised |-> TRUE]
    ELSE RunGenerator(Tail(yields), TmpAdd(tmp, yields[1]))

\* for key, field in self._model_reader.read(record, self.flatten): ...
\* calls counts the invocations of self.callback
RECURSIVE RunFields(_, _, _)
RunFields(fields, tmp, calls) ==
    IF fields = <<>> THEN [tmp |-> tmp, raised |-> FALSE, calls |-> calls]
    ELSE LET g == RunGenerator(fields[1], tmp)
         IN  IF g.raised
             THEN [tmp |-> g.tmp, raised |-> TRUE, calls |-> calls + 1]
             ELSE RunFields(Tail(fields), g.tmp, calls + 1)

\* a process that stores what it collected also when the TypeError leaves it
process_adds_in_finally(st, path, fields) ==
    IF StateContains(st, path)
    THEN [st |-> st, raised |-> FALSE, calls |-> 0]
    ELSE LET r == RunFields(fields, <<>>, 0)
         IN  [st |-> StateAdd(st, path, r.tmp), raised |-> r.raised,
              calls |-> r.calls]

\* Watcher.process(record): the State after the call, whether it raised,
\* and how often it invoked the callback
process(st, path, fields) ==
    IF StateContains(st, path)
    THEN [st |-> st, raised |-> FALSE, calls |-> 0]
    ELSE LET r == RunFields(fields, <<>>, 0)
         IN  IF r.raised
             THEN [st |-> st, raised |-> TRUE, calls |-> r.calls]
             ELSE [st |-> StateAdd(st, path, r.tmp), raised |-> FALSE,
                   calls |-> r.calls]

\* ---- the two-way protocol of the loop of process

\* yields of the other kinds a callback may produce: Unsupported tells which
\* of them process takes
YBool   == [kind |-> "bool", group |-> <<"True">>, extra |-> None]
YNumber == [kind |-> "number", group |-> <<"7">>, extra |-> None]
YNone   == [kind |-> "none", group |-> None, extra |-> None]
YList   == [kind |-> "list", group |-> <<"[", "]">>, extra |-> None]

\* one suspension of the callback: the obj it yields, and whether the
\* generator is delegating (_gen.gi_yieldfrom is set) while it waits there
YieldAt(obj, yieldfrom) == [obj |-> obj, yieldfrom |-> yieldfrom]

\* a loop that never sends
never_sends(callback, y) == FALSE

\* isinstance(_gen, Generator) and not _gen.gi_yieldfrom
sends_slug(callback, y) == callback.is_generator /\ ~y.yieldfrom

\* obj = _gen.send(self.config.slugify(group))  /  obj = next(_gen)
Resume(cfg, callback, y) ==
    IF sends_slug(callback, y)
    THEN [how |-> "send", value |-> slugify(cfg, y.obj.group)]
    ELSE [how |-> "next", value |-> None]

\* the while loop of process over one callback, with the resumptions it
\* makes: `seen` are the objs the loop has taken, `resumed` how it went on
\* after each
RECURSIVE RunCallback(_, _, _, _, _, _)
RunCallback(cfg, callback, ys, tmp, seen, resumed) ==
    IF ys = <<>>
    THEN [tmp |-> tmp, raised |-> FALSE, seen |-> seen, resumed |-> resumed]
    ELSE IF Unsupported(ys[1].obj)
    THEN [tmp |-> tmp, raised |-> TRUE, seen |-> Append(seen, ys[1].obj),
          resumed |-> resumed]
    ELSE RunCallback(cfg, callback, Tail(ys), TmpAdd(tmp, ys[1].obj),
                     Append(seen, ys[1].obj),
                     Append(resumed, Resume(cfg, callback, ys[1])))

\* ------------------------------------------------------------------------
\*   GroupBySource of vobj.py: append_child, finalize
\* ------------------------------------------------------------------------

\* dict lookup of a count, 0 when absent
CountOf(tmp, k) == IF k \in DOMAIN tmp THEN tmp[k] ELSE 0

\* the for loop of most_used_key
RECURSIVE MostUsedLoop(_, _, _, _)
MostUsedLoop(keys, tmp, best_count, best_key) ==
    IF keys = <<>> THEN best_key
    ELSE LET k   == keys[1]
             num == CountOf(tmp, k) + 1
             t2  == [x \in DOMAIN tmp \cup {k} |-> IF x = k THEN num ELSE tmp[x]]
         IN  IF num > best_count
             THEN MostUsedLoop(Tail(keys), t2, num, k)
             ELSE MostUsedLoop(Tail(keys), t2, best_count, best_key)

\* util.most_used_key
most_used_key(keys) ==
    IF Len(keys) < 3
    THEN (IF keys # <<>> THEN keys[1] ELSE None)
    ELSE MostUsedLoop(keys, [x \in {} |-> 0], 0, None)

\* Record.__eq__ against a str: `child not in self.__children` compares the
\* Record `child` with the path strings of the list, and no Record equals a str
RecordEqualsStr(child, s) == FALSE

\* GroupBySource.__init__ of vobj.py: the two private lists
NewSource ==
    [children |-> <<>>, key_obj_map |-> <<>>, finalized |-> FALSE,
     query |-> <<>>, key_obj |-> None]

\* GroupBySource.append_child(child, key_obj)
append_child(src, child, key_obj) ==
    [src EXCEPT
        !.children =
            IF ~(\E i \in 1..Len(src.children) : RecordEqualsStr(child, src.children[i]))
            THEN Append(@, child)
            ELSE @,
        !.key_obj_map = Append(@, key_obj)]

\* FixedRecordsQuery.__init__: self.__child_paths = [x.lstrip('/') for x in child_paths]
FixedRecordsQuery(child_paths) ==
    [i \in 1..Len(child_paths) |-> LStrip(child_paths[i], "/")]

\* the values False and 0 of a group, beside the strings and None
PyFalse == <<"False">>

PyZero == <<"int:0">>

\* a value `or` and `if` take for false: None, False, 0 and ''
Falsy(x) == x \in {None, PyFalse, PyZero, <<>>}

\* GroupBySource.finalize(key_obj): key_obj = None unless built by the
\* resolver; `key_obj or most_used_key(self.__key_obj_map)`
finalize(src, key_obj) ==
    [children |-> <<>>, key_obj_map |-> <<>>, finalized |-> TRUE,
     query |-> FixedRecordsQuery(src.children),
     key_obj |-> IF ~Falsy(key_obj) THEN key_obj ELSE most_used_key(src.key_obj_map)]

\* ------------------------------------------------------------------------
\*   GroupBySource: slug, path, url_path, pagination (vobj.py, config.py)
\* ------------------------------------------------------------------------

VPATH == "@groupby"

\* the expression of the empty string
ExprEmpty == <<"''">>

\* a slug expression of the template engine, kept as the text of the config
ExprIfMany == <<"'m/' ~ this.key ~ '/' if this.children.count() > 1">>

\* a slug expression the template engine cannot compile
ExprBad == <<"'m/' ~">>

\* raise ConfigError(...): what an evaluation gives in place of a value
ConfigError == <<"ConfigError">>

\* str.replace('{key}', key)
RECURSIVE ReplaceKey(_, _)
ReplaceKey(text, key) ==
    IF text = <<>> THEN <<>>
    ELSE (IF text[1] = KeyHole THEN key ELSE <<text[1]>>)
             \o ReplaceKey(Tail(text), key)

\* Expression(env, expr).evaluate(pad, this=on): an undefined result is falsy;
\* _make_expression raises ConfigError for an expression that does not compile
EvalExpression(expr, on) ==
    IF expr = ExprBad THEN ConfigError
    ELSE IF expr = ExprEmpty THEN <<>>
    ELSE IF expr = ExprIfMany
    THEN (IF Len(on.children) > 1 THEN <<"m", "/">> \o on.key \o <<"/">> ELSE None)
    ELSE IF expr[1] = "~ this.key ~"
    THEN <<expr[2], "/">> \o on.key \o <<"/">>
    ELSE None

\* Config.eval_slug(key, on=vobj)
eval_slug(cfg, key, on) ==
    LET cfg_slug == cfg.slug
    IN  IF cfg_slug = <<>> THEN None
        ELSE IF Contains(cfg_slug, KeyHole)
        THEN (IF key # <<>> THEN ReplaceKey(cfg_slug, key) ELSE ConfigError)
        ELSE EvalExpression(cfg_slug, on)

\* a falsy slug: None or ''
NoSlug(slug) == slug = None \/ slug = <<>>

\* if slug and slug.endswith('/index.html'): slug = slug[:-10]
StripIndexHtml(slug) ==
    IF ~NoSlug(slug) /\ EndsWith(slug, <<"/", "index.html">>)
    THEN SubSeq(slug, 1, Len(slug) - 1)
    ELSE slug

\* GroupBySource.slug: a trailing /index.html loses its index.html
Slug(v) == StripIndexHtml(eval_slug(v.cfg, v.key, v))

\* str(page_num)
ToStr(n) == <<CASE n = 0 -> "0" [] n = 1 -> "1" [] n = 2 -> "2" [] n = 3 -> "3"
                [] n = 4 -> "4" [] n = 5 -> "5" [] n = 6 -> "6" [] n = 7 -> "7"
                [] n = 8 -> "8" [] OTHER -> "9">>

\* GroupBySource.path: page_num = 0 stands for None
Path(v) ==
    v.owner \o <<VPATH, "/", v.cfg.key, "/">> \o v.key
        \o (IF v.page_num # 0 THEN <<"/">> \o ToStr(v.page_num) ELSE <<>>)

\* util.build_url
RECURSIVE JoinParts(_)
JoinParts(parts) ==
    IF parts = <<>> THEN <<>>
    ELSE LET txt == Strip(parts[1], "/")
         IN  (IF txt # <<>> THEN <<"/">> \o txt ELSE <<>>) \o JoinParts(Tail(parts))

build_url(parts) ==
    LET url  == JoinParts(parts)
        url2 == IF ~Contains(LastSegment(url), ".") THEN url \o <<"/">> ELSE url
    IN  IF url2 # <<>> THEN url2 ELSE <<"/">>

\* util.insert_before_ext(data, ins, '.'): before the last '.'
LastIndexOf(data, c) ==
    CHOOSE i \in 1..Len(data) :
        data[i] = c /\ \A j \in (i + 1)..Len(data) : data[j] # c

\* an insertion at the end of the text
insert_at_end(data, ins) == data \o ins

insert_before_ext(data, ins) ==
    LET idx == LastIndexOf(data, ".")
    IN  SubSeq(data, 1, idx - 1) \o ins \o SubSeq(data, idx, Len(data))

\* record.url_path of a page of the site
RecordUrlPath(p) == IF p = P_root THEN p ELSE p \o <<"/">>

\* PaginationConfig.url_suffix (the default of the host)
UrlSuffix == <<"p", "a", "g", "e">>

\* the body of GroupBySource.url_path once self.slug is evaluated
UrlOf(v, slug) ==
    LET first == IF ~NoSlug(slug) /\ StartsWith(slug, <<"/">>)
                 THEN RecordUrlPath(P_root)
                 ELSE RecordUrlPath(v.owner)
    IN  IF NoSlug(slug) THEN build_url(<<first>>)
        ELSE IF v.page_num # 0 /\ v.page_num > 1
        THEN (IF Contains(LastSegment(slug), ".")
              THEN build_url(<<first,
                       insert_before_ext(slug, UrlSuffix \o ToStr(v.page_num))>>)
              ELSE build_url(<<first, slug, UrlSuffix, ToStr(v.page_num)>>))
        ELSE build_url(<<first, slug>>)

\* GroupBySource.url_path
UrlPath(v) == UrlOf(v, Slug(v))

\* GroupBySource.supports_pagination / PaginationConfig.enabled
PaginationEnabled(cfg) == cfg.per_page > 0

\* a page count that drops the last, partly filled page
count_full_pages(total, per_page) == total \div per_page

\* PaginationConfig.count_pages of the host: ceil(total / per_page), at least 1
CountPages(total, per_page) ==
    LET npages == (total + per_page - 1) \div per_page
    IN  IF npages > 1 THEN npages ELSE 1

\* GroupBySourcePage(parent, page_num): everything but page_num is the parent's
ForPage(v, page_num) == [v EXCEPT !.page_num = page_num]

\* an equality that looks at the path only
eq_by_path(self, other, same) == same \/ Path(self) = Path(other)

\* GroupBySource.__eq__(other) for a GroupBySource other; same: self is other
GroupBySource_eq(self, other, same) ==
    same \/ (Path(self) = Path(other) /\ Slug(self) = Slug(other))

\* hash of a str: some number of 8 bits that depends on the text only
HashStr(s) == (31 * Len(s) + Cardinality({s[i] : i \in 1..Len(s)})) % 256

\* GroupBySource.__hash__: hash((self.path, self.slug))
GroupBySource_hash(self) == (31 * HashStr(Path(self)) + HashStr(Slug(self))) % 256

\* page.children: GroupBySourcePage defines no children of its own, the
\* property of GroupBySource returns self._query, and __getattr__ of the page
\* takes _query from the parent
Page_children(page) == page.children

\* GroupBySource.__iter_pagination_sources__
IterPaginationSources(v) ==
    IF PaginationEnabled(v.cfg) /\ v.page_num = 0
    THEN [i \in 1..CountPages(Len(v.children), v.cfg.per_page) |-> ForPage(v, i)]
    ELSE <<>>

\* GroupByBuildProgram.produce_artifacts: the artifact a source declares, if any
ProducedArtifacts(v) ==
    IF PaginationEnabled(v.cfg) /\ v.page_num = 0 THEN {}
    ELSE LET url == UrlPath(v)
         IN  {IF EndsWith(url, <<"/">>) THEN url \o <<"index.html">> ELSE url}

\* the paths of the children of one State entry, in insertion order
ChildPaths(children) == [i \in 1..Len(children) |-> children[i].path]

\* GroupBySource(root, group, config, children=children): key = config.slugify(group)
GroupBySource(root, group, cfg, children, w) ==
    [owner |-> root, cfg |-> cfg, key |-> slugify(cfg, group), key_obj |-> group,
     children |-> ChildPaths(children), page_num |-> 0, watcher |-> w]

\* Watcher.iter_sources(root): one GroupBySource per entry of the State
iter_sources(st, root, cfg, w) ==
    [i \in 1..Len(st.state) |->
        GroupBySource(root, st.state[i].group, cfg, st.state[i].children, w)]

\* ------------------------------------------------------------------------
\*   Python dict and list helpers
\* ------------------------------------------------------------------------

\* d[k] = v
DictSet(d, k, v) == [x \in DOMAIN d \cup {k} |-> IF x = k THEN v ELSE d[x]]

\* del d[k]
DictDel(d, k) == [x \in DOMAIN d \ {k} |-> d[x]]

\* x in list
InSeq(x, list) == \E i \in 1..Len(list) : list[i] = x

\* set(list)
Range(list) == {list[i] : i \in 1..Len(list)}

\* a test that takes every value for truthy
AlwaysTruthy(x) == TRUE

\* `if filter_keys`: None and the empty list are falsy
Truthy(x) == x # None /\ x # <<>>

\* ------------------------------------------------------------------------
\*   Resolver (resolver.py): _data is key -> url -> ResolverEntry
\* ------------------------------------------------------------------------

ResolverEntry(vobj) ==
    [key |-> vobj.key, key_obj |-> vobj.key_obj, config |-> vobj.cfg,
     page |-> vobj.page_num]

\* Resolver.files
Resolver_files(data) == UNION {DOMAIN data[k] : k \in DOMAIN data}

\* a reset that forgets every key
reset_all(data, key) == <<>>

\* Resolver.reset(key): key = <<>> for no key, <<k>> for the key k; `if key`
\* is false for None and for the empty string
Resolver_reset(data, key) ==
    IF key # <<>> /\ key[1] # ""
    THEN (IF key[1] \in DOMAIN data THEN DictDel(data, key[1]) ELSE data)
    ELSE <<>>

\* an add that does not look at the slug
add_unconditionally(data, vobj) ==
    LET k   == vobj.cfg.key
        sub == IF k \in DOMAIN data THEN data[k] ELSE <<>>
    IN  DictSet(data, k, DictSet(sub, UrlPath(vobj), ResolverEntry(vobj)))

\* Resolver.add(vobj)
Resolver_add(data, vobj) ==
    IF ~NoSlug(Slug(vobj))
    THEN LET k   == vobj.cfg.key
             sub == IF k \in DOMAIN data THEN data[k] ELSE <<>>
         IN  DictSet(data, k, DictSet(sub, UrlPath(vobj), ResolverEntry(vobj)))
    ELSE data

\* resolve_server_path / resolve_virtual_path: the object the host hands to
\* the hooks for a resolver entry, GroupBySource(node, rv.key, rv.config,
\* rv.page).finalize(rv.key_obj)
Resolved(rv) ==
    [owner |-> rv.config.root, cfg |-> rv.config, key |-> rv.key,
     key_obj |-> finalize(NewSource, rv.key_obj).key_obj, children |-> <<>>,
     page_num |-> rv.page, watcher |-> 0]

\* isinstance(node, Page)
IsPage(node) == IsRecord(node)

\* int(s): <<n>>, or <<>> for the ValueError
ParseInt(s) ==
    IF \E n \in 0..9 : ToStr(n) = s THEN <<CHOOSE n \in 0..9 : ToStr(n) = s>>
    ELSE <<>>

\* ResolverEntry.equals(path, conf_key, vobj_key, page): page = <<>> for None,
\* the page of an entry is 0 for None, which no int equals
ResolverEntry_equals(rv, path, conf_key, vobj_key, page) ==
    /\ rv.key = vobj_key
    /\ rv.config.key = conf_key
    /\ rv.config.root = path
    /\ IF page = <<>> THEN rv.page = 0 ELSE (page[1] # 0 /\ rv.page = page[1])

\* Resolver.resolve_virtual_path(node, pieces): <<the object>>, <<>> for None
resolve_virtual_path(data, node, pieces) ==
    IF IsPage(node) /\ Len(pieces) >= 2
    THEN LET conf_key      == pieces[1]
             vobj_key      == pieces[2]
             optional_page == SubSeq(pieces, 3, Len(pieces))
             page == IF optional_page # <<>> THEN ParseInt(optional_page[1]) ELSE <<>>
             sub  == IF conf_key \in DOMAIN data THEN data[conf_key] ELSE <<>>
             hits == {u \in DOMAIN sub :
                         ResolverEntry_equals(sub[u], node, conf_key, vobj_key, page)}
         IN  IF hits # {} THEN <<Resolved(sub[CHOOSE u \in hits : TRUE])>> ELSE <<>>
    ELSE <<>>

\* Resolver.resolve_server_path(node, pieces): <<the object>>, <<>> for None;
\* the first subset that knows the url answers
resolve_server_path(data, node, pieces) ==
    IF IsPage(node)
    THEN LET url  == build_url(<<RecordUrlPath(node)>> \o pieces)
             hits == {k \in DOMAIN data : url \in DOMAIN data[k]}
         IN  IF hits # {}
             THEN <<Resolved(data[CHOOSE k \in hits : TRUE][url])>>
             ELSE <<>>
    ELSE <<>>

\* ------------------------------------------------------------------------
\*   The host: builder.build, the artifacts table, the destination folder
\* ------------------------------------------------------------------------

\* VirtualPruner.VPATH, the source every artifact of the package depends on
VirtualPruner_VPATH == <<"/@VirtualPruner">>

\* the key of an artifact in the build database: no leading slash
ArtifactName(url) == Strip(url, "/")

\* builder.build(vobj) while build_all runs: the before-build hook sees
\* isBuilding and records the path; produce_artifacts declares the artifact;
\* build_artifact records the VirtualPruner dependency and writes the file
HostBuild(vobj, W) ==
    LET names == {ArtifactName(u) : u \in ProducedArtifacts(vobj)}
    IN  [W EXCEPT
            !.hbb = IF W.building THEN @ \cup {Path(vobj)} ELSE @,
            !.artifacts = @ \cup {[artifact |-> n, source |-> VirtualPruner_VPATH] :
                                     n \in names},
            !.files = @ \cup names,
            !.declared = @ \cup names,
            !.built = Append(@, vobj)]

\* ------------------------------------------------------------------------
\*   GroupBy (groupby.py)
\* ------------------------------------------------------------------------

\* for w in self._watcher: if w.should_process(record): w.remember(record)
\* (queue_now of the single file: w.process(node))
RECURSIVE OfferRecord(_, _, _)
OfferRecord(ws, record, W) ==
    IF ws = <<>> \/ W.raised THEN W
    ELSE LET w  == ws[1]
             W1 == [W EXCEPT !.offers = Append(@, <<w, record>>)]
         IN  IF should_process(record, W.cfg[w].root)
             THEN LET res == process(W.wst[w], record, site[record])
                  IN  OfferRecord(Tail(ws), record,
                          [W1 EXCEPT !.wst[w] = res.st, !.raised = res.raised])
             ELSE OfferRecord(Tail(ws), record, W1)

\* while queue: record = queue.pop(); extend by attachments and children
RECURSIVE Traverse(_, _)
Traverse(queue, W) ==
    IF queue = <<>> \/ W.raised THEN W
    ELSE LET record == queue[Len(queue)]
             rest   == SubSeq(queue, 1, Len(queue) - 1)
                           \o (IF HasAttachments(record) THEN AttachmentsOf(record)
                               ELSE <<>>)
                           \o ChildrenOf(record)
         IN  Traverse(rest, IF IsRecord(record)
                            THEN OfferRecord(W.watcher, record, W)
                            ELSE W)

\* vobj.slug raises the ConfigError of eval_slug
SlugRaises(vobj) == Slug(vobj) = ConfigError

\* self._results.append(vobj); self.resolver.add(vobj): the ConfigError of
\* vobj.slug leaves add, and make_once, uncaught
Remember(vobj, W) ==
    IF SlugRaises(vobj)
    THEN [W EXCEPT !.results = Append(@, vobj), !.raised = TRUE]
    ELSE [W EXCEPT !.results = Append(@, vobj),
                   !.materialized = @ \cup {vobj},
                   !.data = Resolver_add(@, vobj)]

RECURSIVE RememberAll(_, _)
RememberAll(srcs, W) ==
    IF srcs = <<>> \/ W.raised THEN W
    ELSE RememberAll(Tail(srcs), Remember(srcs[1], W))

\* for vobj in w.iter_sources(): the source, then its pagination pages
RECURSIVE AddSources(_, _)
AddSources(srcs, W) ==
    IF srcs = <<>> \/ W.raised THEN W
    ELSE AddSources(Tail(srcs),
             RememberAll(IterPaginationSources(srcs[1]), Remember(srcs[1], W)))

\* the for loop of make_once over the pending watchers
RECURSIVE MakeLoop(_, _, _, _)
MakeLoop(ws, filter_keys, remaining, W) ==
    IF W.raised THEN W
    ELSE IF ws = <<>> THEN [W EXCEPT !.watcher = remaining]
    ELSE LET w == ws[1]
         IN  IF Truthy(filter_keys) /\ ~InSeq(W.cfg[w].key, filter_keys)
             THEN MakeLoop(Tail(ws), filter_keys, Append(remaining, w), W)
             ELSE LET W1 == [W EXCEPT !.data = Resolver_reset(@, <<W.cfg[w].key>>)]
                      W2 == AddSources(
                                iter_sources(W.wst[w], W.cfg[w].root, W.cfg[w], w),
                                W1)
                  IN  MakeLoop(Tail(ws), filter_keys, remaining, W2)

\* the make_once call that led from W to W1 is noted in lastMake
NoteMakeOnce(W, filter_keys, W1) ==
    IF W1.raised THEN W1
    ELSE
    [W1 EXCEPT
        !.consumed = @ \cup (Range(W.watcher) \ Range(W1.watcher)),
        !.lastMake = <<[filter_keys |-> filter_keys,
                        before |-> W.watcher,
                        after |-> W1.watcher,
                        consumed_before |-> W.consumed,
                        added |-> SubSeq(W1.results, Len(W.results) + 1,
                                         Len(W1.results))]>>]

\* GroupBy.make_once(filter_keys)
make_once(W, filter_keys) ==
    IF W.watcher = <<>> THEN W
    ELSE NoteMakeOnce(W, filter_keys, MakeLoop(W.watcher, filter_keys, <<>>, W))

\* self._pre_build_priority.clear(), which an exception of make_once skips
ClearPreBuild(W) == IF W.raised THEN W ELSE [W EXCEPT !.pre = <<>>]

\* the end of queue_all: build sources which need building before the
\* actual build
PreBuild(W) ==
    IF W.raised THEN W
    ELSE IF W.pre # <<>>
    THEN ClearPreBuild(make_once(W, W.pre))
    ELSE W

\* for w in self._watcher: w.initialize(builder.pad)
InitializeAll(W) ==
    [W EXCEPT !.wst = [i \in DOMAIN @ |->
                          IF InSeq(i, W.watcher) THEN NewState ELSE @[i]]]

\* self._watcher = [w for w in self._watcher if w.config.enabled]
RemoveDisabled(W) ==
    [W EXCEPT !.watcher = SelectSeq(@, LAMBDA w : W.cfg[w].enabled),
              !.runs = @ + 1]

\* queue_all once the disabled watchers are removed
WalkTree(W) ==
    IF W.watcher = <<>> THEN W
    ELSE PreBuild(Traverse(GetAllRoots, InitializeAll(W)))

\* GroupBy.queue_all(builder)
queue_all(W) == WalkTree(RemoveDisabled(W))

\* the path condition of the build loop without the slug condition
selects_by_path(vobj, specific) ==
    specific # <<>> => Path(vobj) = Path(specific[1])

\* the conditions of the build loop: `if specific and vobj.path !=
\* specific.path: continue` and `if vobj.slug`
build_all_selects(vobj, specific) ==
    /\ (specific # <<>> => Path(vobj) = Path(specific[1]))
    /\ ~NoSlug(Slug(vobj))

RECURSIVE BuildEach(_, _, _)
BuildEach(vobjs, specific, W) ==
    IF vobjs = <<>> THEN W
    ELSE BuildEach(Tail(vobjs), specific,
             IF build_all_selects(vobjs[1], specific)
             THEN HostBuild(vobjs[1], W)
             ELSE W)

\* the end of build_all: self._building = False; self._results.clear();
\* the call is noted in lastBuild
EndBuild(W, specific, found) ==
    [W EXCEPT
        !.building = FALSE,
        !.results = <<>>,
        !.lastBuild = <<[specific |-> IF specific # <<>>
                                      THEN Path(specific[1]) ELSE None,
                         materialized |-> found,
                         built |-> W.built]>>]

\* build_all after make_once: self._building = True and the build loop
BuildResults(W, specific) ==
    IF W.raised THEN W
    ELSE EndBuild(BuildEach(W.results, specific,
                 [W EXCEPT !.building = TRUE, !.built = <<>>]),
             specific, W.results)

\* GroupBy.build_all(builder, specific), specific = <<>> for None and <<vobj>>
\* for an object
build_all(W, specific) ==
    IF W.watcher = <<>> /\ W.results = <<>> THEN W
    ELSE BuildResults(make_once(W, IF specific # <<>>
                                   THEN <<specific[1].cfg.key>> ELSE None),
                      specific)

\* ------------------------------------------------------------------------
\*   GroupByPlugin (plugin.py)
\* ------------------------------------------------------------------------

\* _load_quick_config and the before-build-all event: add_watcher per entry
\* of the plan, on the fresh GroupBy that GroupByRef.set attaches
add_watchers(W) ==
    LET ids == [i \in 1..Len(plan) |-> i]
        pre == SelectSeq(ids, LAMBDA i : plan[i].pre_build)
    IN  [W EXCEPT !.exists = TRUE,
                  !.cfg = [i \in 1..Len(plan) |-> Config(plan[i])],
                  !.wst = [i \in 1..Len(plan) |-> NewState],
                  !.watcher = ids,
                  !.pre = [j \in 1..Len(pre) |-> plan[pre[j]].key]]

\* an _init_once that does not look for the GroupBy of the builder
init_always(W) == queue_all(add_watchers(W))

\* GroupByPlugin._init_once
init_once(W) == IF W.exists THEN W ELSE queue_all(add_watchers(W))

\* the sources the host builds
AssetSource(p)  == [kind |-> "asset", path |-> p, vobj |-> <<>>]
RecordSource(p) == [kind |-> "record", path |-> p, vobj |-> <<>>]
VobjSource(v)   == [kind |-> "vobj", path |-> Path(v), vobj |-> v]

\* on_before_build after _init_once: the special handling of a GroupBySource
self_building(W, source) ==
    IF W.raised \/ source.kind # "vobj" THEN W
    ELSE IF W.building
    THEN [W EXCEPT !.hbb = @ \cup {source.path}]
    ELSE IF source.path \notin W.hbb
    THEN build_all(W, <<source.vobj>>)
    ELSE W

\* GroupByPlugin.on_before_build
on_before_build(W, source) ==
    IF source.kind = "asset" THEN W
    ELSE self_building(init_once(W), source)

\* .build_all(builder) on what _init_once returns, unless that raised
build_all_unless_raised(W) ==
    IF W.raised THEN W ELSE build_all(W, <<>>)

\* GroupByPlugin.on_after_build_all (the flag is reset by the action)
on_after_build_all(W) == build_all_unless_raised(init_once(W))

\* ------------------------------------------------------------------------
\*   GroupByCreator and GroupByPruner of the single file (lektor_groupby.py)
\* ------------------------------------------------------------------------

\* GroupBySource.__init__(record, group, config, children)
SingleSource(root, group, cfg, children, w) ==
    [owner |-> root, cfg |-> cfg, key |-> GroupByConfig_slugify(cfg, group),
     key_obj |-> group, children |-> ChildPaths(children), page_num |-> 0,
     watcher |-> w]

\* self.slug = self._eval(config.slug, field='slug'), less a trailing index.html
SingleSlug(v) == StripIndexHtml(EvalExpression(v.cfg.slug, v))

\* GroupBySource.url_path: build_url([self.record.path, self.slug])
SingleUrlPath(v) == build_url(<<v.owner, SingleSlug(v)>>)

\* builder.pad.get(w.config.root): the record at the root path
PadGet(path) == IF RStrip(path, "/") = <<>> THEN P_root ELSE RStrip(path, "/")

\* GroupByWatcher.iter_sources(root)
SingleIterSources(st, root, cfg, w) ==
    [i \in 1..Len(st.state) |->
        SingleSource(root, st.state[i].group, cfg, st.state[i].children, w)]

\* self._results[url] = vobj, the dict kept as the list of its values in
\* insertion order
ResultsPut(list, vobj) ==
    IF \E i \in 1..Len(list) : SingleUrlPath(list[i]) = SingleUrlPath(vobj)
    THEN LET i == CHOOSE i \in 1..Len(list) :
                      SingleUrlPath(list[i]) = SingleUrlPath(vobj)
         IN  [list EXCEPT ![i] = vobj]
    ELSE Append(list, vobj)

\* the inner loop of make_cluster: for vobj in w.iter_sources(root)
RECURSIVE ClusterSources(_, _)
ClusterSources(srcs, W) ==
    IF srcs = <<>> THEN W
    ELSE LET vobj == srcs[1]
         IN  ClusterSources(Tail(srcs),
                 IF ~NoSlug(SingleSlug(vobj))
                 THEN [W EXCEPT
                          !.results = ResultsPut(@, vobj),
                          !.data = DictSet(@, SingleUrlPath(vobj),
                                       [group |-> vobj.key_obj, config |-> vobj.cfg])]
                 ELSE [W EXCEPT !.keep = Append(@, vobj)])

\* the outer loop of make_cluster: for w in self._watcher
RECURSIVE ClusterLoop(_, _)
ClusterLoop(ws, W) ==
    IF ws = <<>> THEN W
    ELSE LET w == ws[1]
         IN  ClusterLoop(Tail(ws),
                 ClusterSources(
                     SingleIterSources(W.wst[w], PadGet(W.cfg[w].root), W.cfg[w], w),
                     W))

\* GroupByCreator.make_cluster(builder); the objects it leaves referenced
\* are noted in materialized
make_cluster(W) ==
    LET enabled == SelectSeq(W.watcher, LAMBDA w : W.cfg[w].enabled)
        W1 == [W EXCEPT !.watcher = enabled, !.runs = @ + 1, !.offers = <<>>,
                        !.materialized = {}]
    IN  IF enabled = <<>> THEN W1
        ELSE LET W2 == [W1 EXCEPT !.wst = [i \in DOMAIN @ |->
                                     IF InSeq(i, enabled) THEN NewState ELSE @[i]]]
                 W3 == Traverse(GetAllRoots, W2)
             IN  IF W3.raised THEN W3
                 ELSE LET W4 == ClusterLoop(W3.watcher, W3)
                      IN  [W4 EXCEPT !.watcher = <<>>,
                                     !.materialized = Range(W4.results)
                                                          \cup Range(W4.keep)]

\* GroupByCreator.queue_now(node)
queue_now(W, node) ==
    IF IsRecord(node) THEN OfferRecord(W.watcher, node, W) ELSE W

\* builder.build(vobj) of the single file: produce_artifacts declares the
\* artifact and tracks its url, build_artifact records the dependency on
\* the virtual path of the object
SingleHostBuild(vobj, W) ==
    LET url  == IF EndsWith(SingleUrlPath(vobj), <<"/">>)
                THEN SingleUrlPath(vobj) \o <<"index.html">>
                ELSE SingleUrlPath(vobj)
        name == ArtifactName(url)
    IN  [W EXCEPT
            !.cache = @ \cup {LStrip(url, "/")},
            !.artifacts = @ \cup {[artifact |-> name, source |-> Path(vobj)]},
            !.files = @ \cup {name},
            !.declared = @ \cup {name},
            !.built = Append(@, vobj)]

RECURSIVE SingleBuildEach(_, _)
SingleBuildEach(vobjs, W) ==
    IF vobjs = <<>> THEN W
    ELSE SingleBuildEach(Tail(vobjs), SingleHostBuild(vobjs[1], W))

\* GroupByCreator.build_all(builder); sorted() only fixes the order of the
\* builder calls
GroupByCreator_build_all(W) ==
    LET W1 == SingleBuildEach(W.results, [W EXCEPT !.built = <<>>])
    IN  [W1 EXCEPT !.results = <<>>, !.keep = <<>>,
                   !.lastBuild = <<[specific |-> None,
                                    materialized |-> W.results,
                                    built |-> W1.built]>>]

\* GroupByPruner.prune(builder) on db = [artifacts, files] with the tracked
\* urls: an untracked artifact with a dependency on a groupby virtual path
\* loses its file and its rows
GroupByPruner_prune(db, tracked) ==
    LET stale == {r.artifact : r \in
                     {x \in db.artifacts :
                         /\ LStrip(x.artifact, "/") \notin tracked
                         /\ Contains(x.source, VPATH)}}
    IN  [artifacts |-> {r \in db.artifacts : r.artifact \notin stale},
         files     |-> db.files \ stale,
         pruned    |-> stale]

\* ------------------------------------------------------------------------
\*   prune (pruner.py)
\* ------------------------------------------------------------------------

\* Default SQLITE_MAX_VARIABLE_NUMBER
MAX_VARS == 999

\* the urls as they are handed over
raw_urls(urls) == urls

\* _normalize_urls
normalize_urls(urls) ==
    {LStrip(IF EndsWith(url, <<"/">>) THEN url \o <<"index.html">> ELSE url, "/") :
        url \in urls}

\* a query without the WHERE clause
query_all(rows) == {r.artifact : r \in rows}

\* _query_prunable: SELECT artifact FROM artifacts WHERE source = VPATH
query_prunable(rows) ==
    {r.artifact : r \in {x \in rows : x.source = VirtualPruner_VPATH}}

\* _prune_db_artifacts: one DELETE ... WHERE artifact in (batch) per batch
RECURSIVE prune_db_artifacts(_, _)
prune_db_artifacts(rows, urls) ==
    IF urls = {} THEN rows
    ELSE LET batch == IF Cardinality(urls) <= MAX_VARS THEN urls
                      ELSE CHOOSE b \in SUBSET urls : Cardinality(b) = MAX_VARS
         IN  prune_db_artifacts({r \in rows : r.artifact \notin batch},
                                urls \ batch)

\* prune(builder, current_urls) on db = [artifacts, files]
prune(db, current_urls) ==
    LET previous     == query_prunable(db.artifacts)
        current      == normalize_urls(current_urls)
        to_be_pruned == previous \ current
    IN  [artifacts |-> prune_db_artifacts(db.artifacts, to_be_pruned),
         files     |-> db.files \ {Strip(file, "/") : file \in to_be_pruned},
         pruned    |-> to_be_pruned]

\* a finally clause that is skipped when the try block raised
close_unless_raised(frame) ==
    [frame EXCEPT !.con = IF frame.fault # "none" THEN @ ELSE "closed",
                  !.pc = "done"]

\* prune: finally: con.close()
prune_finally(frame) == [frame EXCEPT !.con = "closed", !.pc = "done"]

\* the variables of a part of the plugin while another part is looked at
PathIdle == spRoot = <<>> /\ spPath = P_root /\ spOut = <<>> /\ spOutSingle = <<>>

ChildIdle == gsrc = NewSource

CallIdle == callArgs = <<>> /\ callResult = <<>>

GroupByIdle ==
    /\ plan = <<>> /\ exists = FALSE /\ pending = <<>> /\ prePrio = <<>>
    /\ results = <<>> /\ building = FALSE /\ resolver = <<>>
    /\ isBuildAll = FALSE /\ hasBeenBuilt = {} /\ keepAlive = <<>> /\ cache = {}

HostIdle ==
    /\ artifacts = {} /\ files = {} /\ currentUrls = {} /\ pruned = <<>>
    /\ dbBefore = <<>>

HistoryIdle ==
    /\ asked = FALSE /\ runs = 0 /\ offers = <<>> /\ materialized = {}
    /\ consumed = {} /\ lastMake = <<>> /\ lastBuild = <<>> /\ declared = {}

OrchestratorIdle == GroupByIdle /\ HostIdle /\ HistoryIdle

WatcherIdle ==
    /\ site = [r \in Records |-> <<>>]
    /\ wcfg = <<>>
    /\ wst = <<>>
    /\ failed = FALSE
    /\ plog = <<>>

\* ------------------------------------------------------------------------
\*   SpecWatcher: one initialized Watcher and any sequence of process calls
\* ------------------------------------------------------------------------

WatcherInit ==
    /\ site \in Sites
    /\ wcfg \in {<<Config(RawConfig("tag", root, <<>>, TRUE, FALSE, 0))>> :
                    root \in {<<>>, P_a}}
    /\ wst = <<NewState>>
    /\ failed = FALSE
    /\ plog = <<>>
    /\ PathIdle
    /\ ChildIdle
    /\ CallIdle
    /\ OrchestratorIdle

\* how many process calls were made for a path before
CallsFor(path) == Cardinality({i \in 1..Len(plog) : plog[i].path = path})

\* Watcher.process(record) for any record, as often as the caller likes
ProcessCall(r) ==
    /\ ~failed
    /\ Len(plog) < MaxProcessCalls
    /\ LET res == process(wst[1], r, site[r])
       IN  /\ wst' = [wst EXCEPT ![1] = res.st]
           /\ failed' = res.raised
           /\ plog' = Append(plog, [path |-> r, nth |-> CallsFor(r) + 1,
                                    calls |-> res.calls,
                                    changed |-> res.st # wst[1]])
    /\ UNCHANGED <<site, wcfg, pathVars, childVars, callVars, orchestratorVars>>

WatcherNext == \E r \in Records : ProcessCall(r)

SpecWatcher == WatcherInit /\ [][WatcherNext]_vars

\* C3: within one build pass the callback is invoked for a record path only
\* during the first process call for that path; every later process call for
\* the path invokes no callback and leaves the watcher's build state unchanged.
C3_ProcessOncePerPath ==
    \A i \in 1..Len(plog) :
        plog[i].nth > 1 => (plog[i].calls = 0 /\ ~plog[i].changed)

\* a second process call for a record whose first call invoked the callback
C3_Witness ==
    \E i, j \in 1..Len(plog) :
        /\ plog[i].path = plog[j].path
        /\ plog[i].nth = 1 /\ plog[i].calls > 0 /\ plog[i].changed
        /\ plog[j].nth = 2

\* C37: if Watcher.process leaves by the error raised for an unsupported
\* yield, the build state of the watcher is unchanged: no group gained the
\* record, no value yielded before the error is stored, and the record is
\* not marked processed.
C37_ErrorLeavesStateUnchanged ==
    [][failed' => (/\ wst' = wst
                   /\ plog'[Len(plog')].path \notin wst'[1].processed)]_vars

\* a record was processed, then a process call for another record raised
\* after its callback had yielded a supported value
C37_Witness ==
    /\ failed
    /\ Len(plog) >= 2
    /\ wst[1].state # <<>>
    /\ LET r == plog[Len(plog)].path
       IN  /\ r \notin wst[1].processed
           /\ \E f \in 1..Len(site[r]) :
                 /\ Len(site[r][f]) = 2
                 /\ ~Unsupported(site[r][f][1])
                 /\ Unsupported(site[r][f][2])

\* ------------------------------------------------------------------------
\*   SpecChild: one GroupBySource, contributions in any order, then finalize
\* ------------------------------------------------------------------------

ChildInit ==
    /\ gsrc = NewSource
    /\ PathIdle
    /\ CallIdle
    /\ WatcherIdle
    /\ OrchestratorIdle

\* one contribution: record `child` yielded a value that slugifies to the key
\* of this object
AppendChildCall(child, key_obj) ==
    /\ ~gsrc.finalized
    /\ Len(gsrc.key_obj_map) < MaxAppends
    /\ gsrc' = append_child(gsrc, child, key_obj)
    /\ UNCHANGED <<pathVars, watcherVars, orchestratorVars, callVars>>

FinalizeCall ==
    /\ ~gsrc.finalized
    /\ gsrc.key_obj_map # <<>>
    /\ gsrc' = finalize(gsrc, None)
    /\ UNCHANGED <<pathVars, watcherVars, orchestratorVars, callVars>>

ChildNext ==
    \/ \E child \in {P_a, P_ab, P_a_b}, key_obj \in {G_a, G_A} :
           AppendChildCall(child, key_obj)
    \/ FinalizeCall

SpecChild == ChildInit /\ [][ChildNext]_vars

NoDuplicates(list) ==
    \A i, j \in 1..Len(list) : list[i] = list[j] => i = j

\* C5: whatever the sequence of contributions, the child list of a
\* GroupBySource contains each record path at most once.
C5_NoDuplicateChild ==
    /\ NoDuplicates(gsrc.children)
    /\ NoDuplicates(gsrc.query)

\* ------------------------------------------------------------------------
\*   SpecPath: should_process applied to drawn roots and record paths
\* ------------------------------------------------------------------------

PathChars == {"/", "a", "b"}

\* a record path of the content tree: "/" or "/seg/seg": no empty segment
IsRecordPath(s) ==
    /\ s # <<>>
    /\ s[1] = "/"
    /\ \A i \in 1..(Len(s) - 1) : ~(s[i] = "/" /\ s[i + 1] = "/")
    /\ (s[Len(s)] = "/" => Len(s) = 1)

RecordPaths ==
    {s \in UNION {[1..n -> PathChars] : n \in 1..MaxPathLen} : IsRecordPath(s)}

\* what a site author writes as root: nothing, a record path, or one with a
\* trailing slash
RawRoots ==
    {<<>>} \cup RecordPaths \cup {p \o <<"/">> : p \in RecordPaths \ {<<"/">>}}

\* the record at p is the root record or one of its descendants
IsUnderRoot(p, root) ==
    LET rs == Segments(root)
        ps == Segments(p)
    IN  Len(rs) <= Len(ps) /\ SubSeq(ps, 1, Len(rs)) = rs

PathInit ==
    /\ spRoot \in RawRoots
    /\ spPath \in RecordPaths
    /\ spOut = <<>>
    /\ spOutSingle = <<>>
    /\ WatcherIdle
    /\ ChildIdle
    /\ CallIdle
    /\ OrchestratorIdle

\* Watcher.initialize (self._root = self.config.root) and should_process
WatcherShouldProcess ==
    /\ spOut = <<>>
    /\ spOut' = <<should_process(spPath, ConfigRoot(spRoot))>>
    /\ UNCHANGED <<spRoot, spPath, spOutSingle, watcherVars, childVars, callVars, orchestratorVars>>

\* GroupByWatcher.initialize and should_process of the single-file plugin
GroupByWatcherShouldProcess ==
    /\ spOutSingle = <<>>
    /\ spOutSingle' = <<should_process(spPath, GroupByConfigRoot(spRoot))>>
    /\ UNCHANGED <<spRoot, spPath, spOut, watcherVars, childVars, callVars, orchestratorVars>>

PathNext == WatcherShouldProcess \/ GroupByWatcherShouldProcess

SpecPath == PathInit /\ [][PathNext]_vars

\* C1: Watcher.should_process(record) is true iff the record's path equals
\* the configured root or lies under it in the content tree.
C1_ShouldProcessIffUnderRoot ==
    spOut # <<>> => (spOut[1] <=> IsUnderRoot(spPath, spRoot))

\* the same statement for GroupByWatcher.should_process of the single file
SingleFileShouldProcessIffUnderRoot ==
    spOutSingle # <<>> => (spOutSingle[1] <=> IsUnderRoot(spPath, spRoot))

\* ------------------------------------------------------------------------
\*   Spec: one builder of the package plugin, hooks in any order
\* ------------------------------------------------------------------------

\* the watchers a site may register: a quick-config section for the whole
\* site; a watcher of another plugin under /a, built early and paginated with
\* one child per page; one whose slug expression is empty for small groups;
\* a disabled one
TagAll   == RawConfig("tag", <<>>, <<>>, TRUE, FALSE, 0)
TagPaged == RawConfig("tag", P_a, <<>>, TRUE, TRUE, 1)
CatMany  == RawConfig("cat", P_a, ExprIfMany, TRUE, FALSE, 0)
CatOff   == RawConfig("cat", <<>>, <<>>, FALSE, FALSE, 0)

Plans ==
    { <<>>, <<TagAll>>, <<TagPaged>>, <<CatMany>>, <<CatOff>>,
      <<TagAll, CatMany>>, <<TagPaged, CatMany>>, <<CatOff, TagAll>>,
      <<TagAll, TagPaged>>, <<CatMany, TagPaged>> }

\* the sites of the build runs: /a/b carries the tags a and b, /a carries
\* some tag, the sibling /ab carries the same two tags or none
TwoTags == << <<YStr(G_a), YStr(G_b)>> >>

BuildSites ==
    {s \in Sites : /\ s[P_a_b] = TwoTags
                    /\ s[P_a] \notin {<<>>, TwoTags}
                    /\ s[P_ab] \in {<<>>, TwoTags}}

\* what an earlier build has left in the database and the output folder: a
\* page of a group that is gone, and the page of a record
InitialArtifacts ==
    { [artifact |-> <<"tag", "/", "z", "/", "index.html">>,
       source |-> VirtualPruner_VPATH],
      [artifact |-> <<"a", "/", "index.html">>, source |-> P_a] }

\* the plugin and the builder as the handlers find them
World ==
    [cfg |-> wcfg, wst |-> wst, raised |-> FALSE,
     exists |-> exists, watcher |-> pending, pre |-> prePrio,
     results |-> results, building |-> building, data |-> resolver,
     hbb |-> hasBeenBuilt, keep |-> keepAlive, cache |-> cache,
     artifacts |-> artifacts, files |-> files,
     runs |-> runs, offers |-> offers, materialized |-> materialized,
     consumed |-> consumed, lastMake |-> lastMake, lastBuild |-> lastBuild,
     declared |-> declared, built |-> <<>>]

\* ... and as a handler leaves them
Commit(W) ==
    /\ wcfg' = W.cfg /\ wst' = W.wst /\ failed' = W.raised
    /\ exists' = W.exists /\ pending' = W.watcher /\ prePrio' = W.pre
    /\ results' = W.results /\ building' = W.building /\ resolver' = W.data
    /\ hasBeenBuilt' = W.hbb /\ keepAlive' = W.keep /\ cache' = W.cache
    /\ artifacts' = W.artifacts /\ files' = W.files
    /\ runs' = W.runs /\ offers' = W.offers /\ materialized' = W.materialized
    /\ consumed' = W.consumed /\ lastMake' = W.lastMake
    /\ lastBuild' = W.lastBuild /\ declared' = W.declared

\* what no hook writes
hookFrame == <<site, plan, plog, pathVars, childVars, callVars>>

\* what Commit writes
worldVars ==
    <<wcfg, wst, failed, exists, pending, prePrio, results, building, resolver,
      hasBeenBuilt, keepAlive, cache, artifacts, files, runs, offers,
      materialized, consumed, lastMake, lastBuild, declared>>

Init ==
    /\ site \in BuildSites
    /\ plan \in Plans
    /\ wcfg = <<>> /\ wst = <<>> /\ failed = FALSE /\ plog = <<>>
    /\ exists = FALSE /\ pending = <<>> /\ prePrio = <<>> /\ results = <<>>
    /\ building = FALSE /\ resolver = <<>> /\ isBuildAll = FALSE
    /\ hasBeenBuilt = {} /\ keepAlive = <<>> /\ cache = {}
    /\ artifacts = InitialArtifacts
    /\ files = {r.artifact : r \in InitialArtifacts}
    /\ currentUrls = {} /\ pruned = <<>> /\ dbBefore = <<>>
    /\ HistoryIdle
    /\ PathIdle
    /\ ChildIdle
    /\ CallIdle

\* GroupByPlugin.on_before_build_all
OnBeforeBuildAll ==
    /\ ~failed
    /\ isBuildAll' = TRUE
    /\ UNCHANGED <<hookFrame, worldVars, asked, currentUrls, pruned, dbBefore>>

\* the sources the host may announce: assets, records, and the groups the
\* resolver hands out
ResolverEntries ==
    UNION {{resolver[k][u] : u \in DOMAIN resolver[k]} : k \in DOMAIN resolver}

Sources ==
    {AssetSource(Asset1), RecordSource(P_a)}
        \cup {VobjSource(Resolved(rv)) : rv \in ResolverEntries}

\* GroupByPlugin.on_before_build(builder, source)
OnBeforeBuild(source) ==
    /\ ~failed
    /\ Commit(on_before_build(World, source))
    /\ asked' = (asked \/ source.kind # "asset")
    /\ UNCHANGED <<hookFrame, isBuildAll, currentUrls, pruned, dbBefore>>

\* GroupByPlugin.on_after_build(source, build_state)
OnAfterBuild(source, updated_artifacts) ==
    /\ ~failed
    /\ hasBeenBuilt' =
           IF ~isBuildAll /\ source.kind = "record" /\ updated_artifacts
           THEN {} ELSE hasBeenBuilt
    /\ UNCHANGED <<hookFrame, wcfg, wst, failed, exists, pending, prePrio,
                   results, building, resolver, keepAlive, cache, isBuildAll,
                   hostVars, historyVars>>

\* GroupByPlugin.on_after_build_all(builder)
OnAfterBuildAll ==
    /\ ~failed
    /\ Commit(on_after_build_all(World))
    /\ isBuildAll' = IF failed' THEN isBuildAll ELSE FALSE
    /\ asked' = TRUE
    /\ UNCHANGED <<hookFrame, currentUrls, pruned, dbBefore>>

\* GroupByPlugin.on_after_prune(builder): prune(builder, self.resolver.files)
OnAfterPrune ==
    /\ ~failed
    /\ LET db == prune([artifacts |-> artifacts, files |-> files],
                       Resolver_files(resolver))
       IN  /\ artifacts' = db.artifacts
           /\ files' = db.files
           /\ pruned' = <<db.pruned>>
    /\ currentUrls' = Resolver_files(resolver)
    /\ dbBefore' = <<[artifacts |-> artifacts, files |-> files,
                     declared |-> declared]>>
    /\ UNCHANGED <<hookFrame, wcfg, wst, failed, groupbyVars, historyVars>>

\* the keys a template hands to the vgroups filter
FilterKeys == {None, <<>>, <<"tag">>, <<"cat">>}

\* VGroups.iter(record, keys) while a page is rendered:
\* GroupByRef.of(builder).make_once(keys)
VGroupsIter(keys) ==
    /\ ~failed
    /\ exists
    /\ Commit(make_once(World, keys))
    /\ UNCHANGED <<hookFrame, isBuildAll, asked, currentUrls, pruned, dbBefore>>

Next ==
    \/ OnBeforeBuildAll
    \/ \E source \in Sources : OnBeforeBuild(source)
    \/ \E source \in Sources, updated_artifacts \in BOOLEAN :
           OnAfterBuild(source, updated_artifacts)
    \/ OnAfterBuildAll
    \/ OnAfterPrune
    \/ \E keys \in FilterKeys : VGroupsIter(keys)

Spec == Init /\ [][Next]_vars

\* C2: after a grouping pass, no record outside Config[K].root is a child of
\* a GroupBySource produced for K.
C2_NoChildOutsideRoot ==
    \A v \in materialized :
        \A i \in 1..Len(v.children) : IsUnderRoot(v.children[i], v.cfg.root)

\* C7: an artifact declared by a group built in this pass is not deleted by
\* the prune that follows: it is among the current URLs prune compares with
\* (Resolver.files, normalized) and not among the pruned ones.
C7_BuiltArtifactsSurvivePrune ==
    pruned # <<>> =>
        /\ dbBefore[1].declared \subseteq normalize_urls(currentUrls)
        /\ dbBefore[1].declared \cap pruned[1] = {}

\* C8: build_all without `specific` hands to the host builder every
\* materialized object (pagination pages included) with a non-empty slug and
\* none with an empty slug; with `specific` it hands over only materialized
\* objects whose virtual path is specific.path.
C8_BuildAllBuildsSlugged ==
    lastBuild # <<>> =>
        LET b == lastBuild[1]
        IN  IF b.specific = None
            THEN Range(b.built) =
                     {v \in Range(b.materialized) : ~NoSlug(Slug(v))}
            ELSE \A i \in 1..Len(b.built) :
                     /\ b.built[i] \in Range(b.materialized)
                     /\ Path(b.built[i]) = b.specific

\* a build_all without `specific` that found an object without slug and
\* built a pagination page
C8_Witness ==
    /\ lastBuild # <<>>
    /\ lastBuild[1].specific = None
    /\ \E v \in Range(lastBuild[1].materialized) : NoSlug(Slug(v))
    /\ \E v \in Range(lastBuild[1].built) : v.page_num > 0

\* the pending watchers a filter selects: all of them without a filter
Selected(before, filter_keys) ==
    {w \in Range(before) :
        filter_keys \in {None, <<>>} \/ InSeq(wcfg[w].key, filter_keys)}

\* C9: make_once(filter_keys) consumes exactly the pending watchers whose key
\* is selected (all without a filter) and leaves the others pending, in
\* order; a consumed watcher contributes no object to any later make_once.
C9_MakeOnceConsumesSelected ==
    /\ Range(pending) \cap consumed = {}
    /\ lastMake # <<>> =>
        LET m == lastMake[1]
        IN  /\ m.after = SelectSeq(m.before,
                             LAMBDA w : w \notin Selected(m.before, m.filter_keys))
            /\ \A i \in 1..Len(m.added) :
                   /\ m.added[i].watcher \in Selected(m.before, m.filter_keys)
                   /\ m.added[i].watcher \notin m.consumed_before

\* a make_once with a filter left a watcher pending, and a later make_once
\* materialized objects of the rest
C9_Witness ==
    /\ lastMake # <<>>
    /\ lastMake[1].consumed_before # {}
    /\ lastMake[1].added # <<>>
    /\ lastMake[1].after = <<>>

\* how often the traversal offered a record to a watcher
OfferCount(w, r) ==
    Cardinality({i \in 1..Len(offers) : offers[i] = <<w, r>>})

\* C10: whatever hooks run on one builder, queue_all runs once, with the
\* first hook that needs the groups and after the watchers are registered;
\* it offers every reachable record exactly once to every enabled watcher
\* and nothing to a disabled one.
C10_TreeTraversedOnce ==
    /\ runs <= 1
    /\ (asked => runs = 1)
    /\ (runs = 1 => Len(wcfg) = Len(plan))
    /\ (runs = 1 /\ ~failed) =>
           \A w \in 1..Len(wcfg), r \in Nodes :
               OfferCount(w, r) =
                   IF wcfg[w].enabled /\ IsRecord(r) /\ r \in Reachable
                   THEN 1 ELSE 0

\* an enabled and a disabled watcher are registered, the groups were made,
\* and a later before-build hook for one of them has led to a build
C10_Witness ==
    /\ runs = 1 /\ ~failed
    /\ lastBuild # <<>>
    /\ lastBuild[1].specific # None
    /\ \E w \in 1..Len(wcfg) : ~wcfg[w].enabled
    /\ offers # <<>>

\* ------------------------------------------------------------------------
\*   SpecCreator: the single-file plugin, build runs one after the other
\* ------------------------------------------------------------------------

\* build runs (before-build-all hooks) of one SpecCreator behaviour
MaxPasses == 2

\* a watcher whose root is written with a trailing slash
TagUnderA == RawConfig("tag", P_a \o <<"/">>, <<>>, TRUE, FALSE, 0)

SinglePlans ==
    { <<>>, <<TagAll>>, <<TagUnderA>>, <<CatMany>>, <<CatOff, TagAll>>,
      <<TagAll, CatMany>> }

\* what an earlier build has left: the page of a group that is gone, and
\* the page of a record
SingleInitialArtifacts ==
    { [artifact |-> <<"tag", "/", "z", "/", "index.html">>,
       source |-> <<"/", VPATH, "/", "tag", "/", "z">>],
      [artifact |-> <<"a", "/", "index.html">>, source |-> P_a] }

CreatorInit ==
    /\ site \in Sites
    /\ plan \in SinglePlans
    /\ wcfg = <<>> /\ wst = <<>> /\ failed = FALSE /\ plog = <<>>
    /\ exists = TRUE /\ pending = <<>> /\ prePrio = <<>> /\ results = <<>>
    /\ building = FALSE /\ resolver = <<>> /\ isBuildAll = FALSE
    /\ hasBeenBuilt = {} /\ keepAlive = <<>> /\ cache = {}
    /\ artifacts = SingleInitialArtifacts
    /\ files = {r.artifact : r \in SingleInitialArtifacts}
    /\ currentUrls = {} /\ pruned = <<>> /\ dbBefore = <<>>
    /\ HistoryIdle
    /\ PathIdle
    /\ ChildIdle
    /\ CallIdle

\* the watchers are added without clear_previous_results
add_watchers_only(W) ==
    [W EXCEPT !.cfg = [i \in 1..Len(plan) |-> GroupByConfig(plan[i])],
              !.wst = [i \in 1..Len(plan) |-> NewState],
              !.watcher = [i \in 1..Len(plan) |-> i]]

\* clear_previous_results, then add_watcher for every section of the quick
\* config and every watcher of the before-build-all event
clear_and_add_watchers(W) ==
    [W EXCEPT !.results = <<>>, !.data = <<>>, !.keep = <<>>,
              !.cfg = [i \in 1..Len(plan) |-> GroupByConfig(plan[i])],
              !.wst = [i \in 1..Len(plan) |-> NewState],
              !.watcher = [i \in 1..Len(plan) |-> i]]

\* GroupByPlugin.on_before_build_all of the single file
CreatorOnBeforeBuildAll ==
    /\ ~failed
    /\ runs < MaxPasses
    /\ Commit(make_cluster(clear_and_add_watchers(World)))
    /\ asked' = TRUE
    /\ UNCHANGED <<hookFrame, isBuildAll, currentUrls, pruned, dbBefore>>

\* GroupByPlugin.on_before_build(source): self.creator.queue_now(source)
CreatorOnBeforeBuild(node) ==
    /\ ~failed
    /\ Commit(queue_now(World, node))
    /\ UNCHANGED <<hookFrame, isBuildAll, asked, currentUrls, pruned, dbBefore>>

\* GroupByPlugin.on_after_build_all: self.creator.build_all(builder)
CreatorOnAfterBuildAll ==
    /\ ~failed
    /\ Commit(GroupByCreator_build_all(World))
    /\ UNCHANGED <<hookFrame, isBuildAll, asked, currentUrls, pruned, dbBefore>>

\* GroupByPlugin.on_after_prune: GroupByPruner.prune(builder)
CreatorOnAfterPrune ==
    /\ ~failed
    /\ LET db == GroupByPruner_prune([artifacts |-> artifacts, files |-> files],
                                     cache)
       IN  /\ artifacts' = db.artifacts
           /\ files' = db.files
           /\ pruned' = <<db.pruned>>
    /\ cache' = {}
    /\ currentUrls' = cache
    /\ dbBefore' = <<[artifacts |-> artifacts, files |-> files,
                     declared |-> declared]>>
    /\ UNCHANGED <<hookFrame, wcfg, wst, failed, plan, exists, pending, prePrio,
                   results, building, resolver, isBuildAll, hasBeenBuilt,
                   keepAlive, historyVars>>

CreatorNext ==
    \/ CreatorOnBeforeBuildAll
    \/ \E node \in Nodes : CreatorOnBeforeBuild(node)
    \/ CreatorOnAfterBuildAll
    \/ CreatorOnAfterPrune

SpecCreator == CreatorInit /\ [][CreatorNext]_vars

\* the group values the callback yields for a record
Groups(r) ==
    UNION {{site[r][f][i].group : i \in 1..Len(site[r][f])} :
              f \in 1..Len(site[r])}

\* the records in the scope of watcher w
InScope(w) == {r \in Records \cap Reachable : IsUnderRoot(r, wcfg[w].root)}

\* C4: after a full grouping pass every in-scope record that yielded a value
\* g is a child of a materialized GroupBySource with key slugify(g), and the
\* children of all groups of a key are exactly the in-scope records that
\* yielded a value.
C4_NoRecordLost ==
    (runs > 0 /\ ~failed) =>
        \A w \in 1..Len(wcfg) :
            wcfg[w].enabled =>
                /\ \A r \in InScope(w) : \A g \in Groups(r) :
                       \E v \in materialized :
                           /\ v.watcher = w
                           /\ v.key = GroupByConfig_slugify(wcfg[w], g)
                           /\ InSeq(r, v.children)
                /\ UNION {Range(v.children) :
                             v \in {x \in materialized : x.watcher = w}}
                       = {r \in InScope(w) : Groups(r) # {}}

\* the (url_path, slug, set of child paths) of the objects of a pass
PassTuples(vobjs) ==
    {<<SingleUrlPath(v), SingleSlug(v), Range(v.children)>> : v \in vobjs}

\* C24: the full grouping pass run twice on an unchanged site and
\* configuration gives the same set of (url_path, slug, set of child paths)
\* in both passes, and nothing the first pass accumulated (watchers,
\* results, resolver entries, processed set) is left in the second.
C24_SecondPassSame ==
    [][(runs = 1 /\ runs' = 2 /\ ~failed') =>
          /\ PassTuples(materialized') = PassTuples(materialized)
          /\ Range(results') \cup Range(keepAlive') = materialized'
          /\ Len(results') + Len(keepAlive') = Cardinality(materialized')
          /\ resolver' = resolver
          /\ pending' = <<>>]_vars

\* a second pass that has made a group with a slug and one without
C24_Witness ==
    /\ runs = 2 /\ ~failed
    /\ results # <<>>
    /\ keepAlive # <<>>
    /\ \E v \in materialized : Len(v.children) > 1

\* a step in which build_all ran for one object on demand
OnDemandBuild ==
    lastBuild' # lastBuild /\ lastBuild' # <<>> /\ lastBuild'[1].specific # None

\* C29: re-entrant build requests are deduplicated: every object handed to
\* the host while build_all runs has its virtual path recorded as built, no
\* on-demand build_all starts for a recorded path, and an on-demand build_all
\* leaves its path recorded, so that the path triggers at most one on-demand
\* build_all until the built-set is cleared.
C29_ReentrantDeduplicated ==
    [][/\ (lastBuild' # lastBuild /\ lastBuild' # <<>>) =>
              {Path(v) : v \in Range(lastBuild'[1].built)} \subseteq hasBeenBuilt'
       /\ OnDemandBuild => lastBuild'[1].specific \notin hasBeenBuilt
       /\ OnDemandBuild => lastBuild'[1].specific \in hasBeenBuilt']_vars

\* the Resolver holds the entry of vobj under its grouping key and URL
InResolver(data, vobj) ==
    /\ vobj.cfg.key \in DOMAIN data
    /\ UrlPath(vobj) \in DOMAIN data[vobj.cfg.key]
    /\ data[vobj.cfg.key][UrlPath(vobj)] = ResolverEntry(vobj)

\* the entries of the grouping key, none for a key the Resolver does not hold
EntriesOf(data, key) == IF key \in DOMAIN data THEN <<data[key]>> ELSE <<>>

\* the grouping keys of the watchers a make_once has left pending and has
\* not processed under another watcher
FilteredOut(m, cfgs) ==
    {cfgs[w].key : w \in Range(m.after)}
        \ {cfgs[w].key : w \in Range(m.before) \ Range(m.after)}

\* C30: after make_once returns, every object it materialized that has a
\* non-empty slug, unpaginated group or pagination page, is present in the
\* Resolver, also when watchers share a grouping key or objects share a URL,
\* and the entries of the grouping keys that were filtered out are unchanged.
C30_MaterializedInResolver ==
    /\ [](lastMake # <<>> =>
             \A i \in 1..Len(lastMake[1].added) :
                 ~NoSlug(Slug(lastMake[1].added[i])) =>
                     InResolver(resolver, lastMake[1].added[i]))
    /\ [][(exists /\ lastMake' # lastMake /\ lastMake' # <<>>) =>
              \A key \in FilteredOut(lastMake'[1], wcfg') :
                  EntriesOf(resolver', key) = EntriesOf(resolver, key)]_vars

\* C31: groups are keyed by slug: after a grouping pass there is at most one
\* GroupBySource per root record, grouping key and slugified group key; raw
\* group values that slugify alike are accumulated into one object.
C31_OneSourcePerSlug ==
    \A v1, v2 \in materialized :
        (/\ v1.page_num = 0 /\ v2.page_num = 0
         /\ v1.watcher = v2.watcher
         /\ v1.owner = v2.owner
         /\ v1.cfg.key = v2.cfg.key
         /\ v1.key = v2.key) => v1 = v2

\* C33: no materialized group is dropped unbuilt: every GroupBySource with a
\* non-empty slug that a build_all call, with or without `specific`, found
\* in the results was handed to the host builder or is still in the results.
C33_NoGroupDroppedUnbuilt ==
    lastBuild # <<>> =>
        \A v \in Range(lastBuild[1].materialized) :
            ~NoSlug(Slug(v)) =>
                v \in Range(lastBuild[1].built) \cup Range(results)

\* which record belongs to which group of a State
Membership(st) ==
    UNION {{<<st.state[i].group, st.state[i].children[j].path>> :
               j \in 1..Len(st.state[i].children)} : i \in 1..Len(st.state)}

\* C26: accumulation is commutative: the membership of every group is the
\* same for every order in which the records are visited and processed; it
\* is a function of the set of processed records alone.
C26_MembershipOrderFree ==
    Len(wst) = 1 =>
        Membership(wst[1]) =
            UNION {{<<g, r>> : g \in Groups(r)} : r \in wst[1].processed}

\* three records were processed, two of them in the group 'a'
C26_Witness ==
    /\ Len(wst) = 1 /\ ~failed
    /\ Cardinality(wst[1].processed) = 3
    /\ Cardinality({m \in Membership(wst[1]) : m[1] = G_a}) >= 2
    /\ plog[1].path = P_a_b

\* ------------------------------------------------------------------------
\*   SpecPrune: prune on any build database, output folder and URL set
\* ------------------------------------------------------------------------

\* artifacts of the database: two pages of groups and the page of a record
PruneNames ==
    { <<"tag", "/", "a", "/", "index.html">>, <<"a", ".", "h">>,
      <<"x", "/", "index.html">> }

\* the current URLs a caller may hand over, as url_path gives them and as
\* artifact names
PruneUrls ==
    { <<"/", "tag", "/", "a", "/">>, <<"/", "a", ".", "h">>,
      <<"tag", "/", "a", "/", "index.html">>, <<"/", "x", "/">> }

PruneInit ==
    /\ artifacts \in SUBSET {[artifact |-> n, source |-> s] :
                               n \in PruneNames, s \in {VirtualPruner_VPATH, P_a}}
    /\ files \in SUBSET PruneNames
    /\ currentUrls \in SUBSET PruneUrls
    /\ pruned = <<>>
    /\ dbBefore = <<>>
    /\ GroupByIdle
    /\ HistoryIdle
    /\ WatcherIdle
    /\ PathIdle
    /\ ChildIdle
    /\ CallIdle

\* prune(builder, current_urls)
PruneCall ==
    /\ pruned = <<>>
    /\ LET db == prune([artifacts |-> artifacts, files |-> files], currentUrls)
       IN  /\ artifacts' = db.artifacts
           /\ files' = db.files
           /\ pruned' = <<db.pruned>>
    /\ dbBefore' = <<[artifacts |-> artifacts, files |-> files,
                     declared |-> declared]>>
    /\ UNCHANGED <<currentUrls, groupbyVars, historyVars, watcherVars, pathVars,
                   childVars, callVars>>

PruneNext == PruneCall

SpecPrune == PruneInit /\ [][PruneNext]_vars

\* the artifact a URL of the current build stands for
ArtifactOf(url) ==
    ArtifactName(IF url[Len(url)] = "/" THEN url \o <<"index.html">> ELSE url)

\* the previous URLs of the namespace that no current URL stands for
Stale(before, current_urls) ==
    {r.artifact : r \in {x \in before.artifacts : x.source = VirtualPruner_VPATH}}
        \ {ArtifactOf(url) : url \in current_urls}

\* C6: for the previous URL set A of the pruner's namespace and the current
\* URL set B, prune deletes the files of exactly A minus B and removes
\* exactly their records; every URL of B keeps its file and its records.
C6_PruneDeletesExactlyStale ==
    pruned # <<>> =>
        LET before == dbBefore[1]
            gone   == Stale(before, currentUrls)
        IN  /\ pruned[1] = gone
            /\ files = before.files \ gone
            /\ artifacts = {r \in before.artifacts : r.artifact \notin gone}
            /\ \A url \in currentUrls :
                   /\ ArtifactOf(url) \in before.files => ArtifactOf(url) \in files
                   /\ \A r \in before.artifacts :
                          r.artifact = ArtifactOf(url) => r \in artifacts

\* a prune that removed a stale page and kept a page whose current URL ends
\* in a slash
C6_Witness ==
    /\ pruned # <<>>
    /\ pruned[1] # {}
    /\ \E url \in currentUrls :
           /\ url[Len(url)] = "/"
           /\ ArtifactOf(url) \in files
           /\ [artifact |-> ArtifactOf(url), source |-> VirtualPruner_VPATH]
                  \in artifacts

\* ------------------------------------------------------------------------
\*   SpecCallback: the loop of process over one callback
\* ------------------------------------------------------------------------

\* yields of one callback in SpecCallback
MaxYields == 2

\* the objs a callback yields
YieldObjs == {YStr(G_A), YTuple(G_a, "x"), YBool, YNumber, YNone, YList}

\* a generator (delegating or not at each yield) or a plain iterator
Callbacks == {[is_generator |-> TRUE], [is_generator |-> FALSE]}

YieldsOf(callback) ==
    {YieldAt(obj, d) : obj \in YieldObjs,
                       d \in IF callback.is_generator THEN BOOLEAN ELSE {FALSE}}

SeqsUpTo(S, n) == UNION {[1..k -> S] : k \in 0..n}

CallbackInit ==
    /\ callArgs \in UNION {{[cfg |-> Config(TagAll), callback |-> c, ys |-> ys] :
                                ys \in SeqsUpTo(YieldsOf(c), MaxYields)} :
                             c \in Callbacks}
    /\ callResult = <<>>
    /\ PathIdle
    /\ ChildIdle
    /\ WatcherIdle
    /\ OrchestratorIdle

\* the loop of Watcher.process for one field of a record
RunCallbackCall ==
    /\ callResult = <<>>
    /\ callResult' = <<RunCallback(callArgs.cfg, callArgs.callback, callArgs.ys,
                                   <<>>, <<>>, <<>>)>>
    /\ UNCHANGED <<callArgs, pathVars, childVars, watcherVars, orchestratorVars>>

CallbackNext == RunCallbackCall

SpecCallback == CallbackInit /\ [][CallbackNext]_vars

SupportedKinds == {"str", "bool", "number", "none", "tuple"}

\* C12: process raises exactly when the callback yields a value that is not
\* a string, a bool, a number, None or a tuple; values of these five kinds
\* never raise.
C12_RaisesOnlyForUnsupportedKinds ==
    callResult # <<>> =>
        (callResult[1].raised <=>
            \E i \in 1..Len(callArgs.ys) :
                callArgs.ys[i].obj.kind \notin SupportedKinds)

\* ------------------------------------------------------------------------
\*   SpecSlug: builds of sites whose slug cannot be evaluated for a group
\* ------------------------------------------------------------------------

\* a field "b," split at the comma: the groups 'b' and ''
EmptyTag == << <<YStr(G_b), YStr(<<>>)>> >>

\* /a carries the empty tag or the tag A; no callback yields an unsupported
\* value
SlugSites ==
    {[r \in Records |-> IF r = P_a_b THEN TwoTags
                        ELSE IF r = P_a THEN fields
                        ELSE <<>>] :
        fields \in {EmptyTag, << <<YStr(G_A)>> >>}}

\* a watcher whose slug expression does not compile
CatBad == RawConfig("cat", <<>>, ExprBad, TRUE, FALSE, 0)

SlugPlans == { <<TagAll>>, <<TagPaged>>, <<CatBad>>, <<CatBad, TagAll>> }

SlugInit ==
    /\ site \in SlugSites
    /\ plan \in SlugPlans
    /\ wcfg = <<>> /\ wst = <<>> /\ failed = FALSE /\ plog = <<>>
    /\ exists = FALSE /\ pending = <<>> /\ prePrio = <<>> /\ results = <<>>
    /\ building = FALSE /\ resolver = <<>> /\ isBuildAll = FALSE
    /\ hasBeenBuilt = {} /\ keepAlive = <<>> /\ cache = {}
    /\ artifacts = InitialArtifacts
    /\ files = {r.artifact : r \in InitialArtifacts}
    /\ currentUrls = {} /\ pruned = <<>> /\ dbBefore = <<>>
    /\ HistoryIdle
    /\ PathIdle
    /\ ChildIdle
    /\ CallIdle

SpecSlug == SlugInit /\ [][Next]_vars

\* the objects the State of watcher w stands for
ObjectsOf(w) ==
    Range(iter_sources(wst[w], wcfg[w].root, wcfg[w], w))

\* C13: a slug expression that fails to evaluate (a {key} template for an
\* empty key, an expression that does not compile) does not abort the build:
\* the object resolves to no slug and is skipped, and every other object of
\* a materialized watcher is materialized.
C13_SlugErrorDoesNotAbort ==
    /\ ~failed
    /\ \A w \in consumed : \A v \in ObjectsOf(w) :
           ~SlugRaises(v) => v \in materialized

\* ------------------------------------------------------------------------
\*   SpecMostUsed: most_used_key on any list of contributed group values
\* ------------------------------------------------------------------------

\* contributions to one GroupBySource in SpecMostUsed
MaxKeys == 4

MostUsedInit ==
    /\ callArgs \in {[keys |-> keys] : keys \in SeqsUpTo({G_a, G_A, G_b}, MaxKeys)}
    /\ callResult = <<>>
    /\ PathIdle
    /\ ChildIdle
    /\ WatcherIdle
    /\ OrchestratorIdle

\* most_used_key(self.__key_obj_map) of finalize
MostUsedKeyCall ==
    /\ callResult = <<>>
    /\ callResult' = <<most_used_key(callArgs.keys)>>
    /\ UNCHANGED <<callArgs, pathVars, childVars, watcherVars, orchestratorVars>>

MostUsedNext == MostUsedKeyCall

SpecMostUsed == MostUsedInit /\ [][MostUsedNext]_vars

\* how often k occurs in keys
Occurrences(keys, k) == Cardinality({i \in 1..Len(keys) : keys[i] = k})

\* where k occurs first in keys
FirstIndex(keys, k) == CHOOSE i \in 1..Len(keys) :
                           keys[i] = k /\ \A j \in 1..(i - 1) : keys[j] # k

\* C14: most_used_key returns a value with the highest occurrence count, of
\* several such values the one that occurs first in the list; the first
\* value for fewer than three contributions; None for an empty list.
C14_MostUsedFirstWinsTies ==
    callResult # <<>> =>
        LET keys == callArgs.keys
            rv   == callResult[1]
        IN  IF keys = <<>> THEN rv = None
            ELSE IF Len(keys) < 3 THEN rv = keys[1]
            ELSE /\ rv \in Range(keys)
                 /\ \A k \in Range(keys) :
                        /\ Occurrences(keys, k) <= Occurrences(keys, rv)
                        /\ Occurrences(keys, k) = Occurrences(keys, rv)
                               => FirstIndex(keys, rv) <= FirstIndex(keys, k)

\* ------------------------------------------------------------------------
\*   SpecPages: the pages of one finalized GroupBySource
\* ------------------------------------------------------------------------

\* children of the group, and page sizes, in SpecPages
MaxChildren == 4
MaxPerPage == 3

\* the paths of n different child records, in the order of the query
NChildren(n) == [i \in 1..n |-> <<"/", "c">> \o ToStr(i)]

SlugHtml == <<"t", "/", KeyHole, ".", "html">>
SlugAbsolute == <<"/", "t", ".", "d", "/", KeyHole>>
PageSlugs == {<<>>, SlugHtml, SlugAbsolute, ExprIfMany}

\* a finalized source: any slug, page size (0: no pagination) and child count,
\* unpaginated (0) or with a page number
PageSources ==
    {[owner |-> owner,
      cfg |-> Config(RawConfig("tag", <<>>, slug, TRUE, FALSE, per_page)),
      key |-> G_a, key_obj |-> G_A, children |-> NChildren(n),
      page_num |-> page_num, watcher |-> 1] :
        owner \in {P_root, P_a}, slug \in PageSlugs, per_page \in 0..MaxPerPage,
        n \in 1..MaxChildren, page_num \in 0..1}

PagesInit ==
    /\ callArgs \in {[vobj |-> v] : v \in PageSources}
    /\ callResult = <<>>
    /\ PathIdle
    /\ ChildIdle
    /\ WatcherIdle
    /\ OrchestratorIdle

\* make_once: for sub_vobj in vobj.__iter_pagination_sources__()
IterPaginationCall ==
    /\ callResult = <<>>
    /\ callResult' = <<IterPaginationSources(callArgs.vobj)>>
    /\ UNCHANGED <<callArgs, pathVars, childVars, watcherVars, orchestratorVars>>

PagesNext == IterPaginationCall

SpecPages == PagesInit /\ [][PagesNext]_vars

\* ceil(n / p) for p > 0
CeilDiv(n, p) == CHOOSE k \in 0..n : k * p >= n /\ (k = 0 \/ (k - 1) * p < n)

\* C15: with pagination enabled, page size P and N children, an unpaginated
\* GroupBySource generates exactly ceil(N/P) pages numbered 1..ceil(N/P) in
\* order; none when pagination is off or the object carries a page number.
C15_OnePagePerWindow ==
    callResult # <<>> =>
        LET v     == callArgs.vobj
            pages == callResult[1]
        IN  IF v.cfg.per_page > 0 /\ v.page_num = 0
            THEN /\ Len(pages) = CeilDiv(Len(v.children), v.cfg.per_page)
                 /\ \A i \in 1..Len(pages) :
                        /\ pages[i].page_num = i
                        /\ pages[i].key = v.key /\ pages[i].cfg = v.cfg
                        /\ pages[i].owner = v.owner
            ELSE pages = <<>>

\* three children on pages of two: the second page is partly filled
C15_Witness ==
    /\ callResult # <<>>
    /\ callArgs.vobj.cfg.per_page = 2 /\ Len(callArgs.vobj.children) = 3
    /\ callArgs.vobj.page_num = 0
    /\ Len(callResult[1]) = 2

\* the text of s without the n atoms from position i on
CutOut(s, i, n) == SubSeq(s, 1, i - 1) \o SubSeq(s, i + n, Len(s))

\* C16: for a non-empty slug the url_path of page 1 is the url_path of the
\* unpaginated object; the url_path of page n >= 2 has suffix and n before
\* the file extension of the last segment, or, without an extension, is the
\* slug followed by the path segments suffix and n.
C16_PageUrls ==
    callResult # <<>> =>
        LET v     == callArgs.vobj
            pages == callResult[1]
            url   == UrlPath(v)
            ins(n) == UrlSuffix \o ToStr(n)
        IN  ~NoSlug(Slug(v)) =>
              \A i \in 1..Len(pages) :
                 IF i = 1 THEN UrlPath(pages[i]) = url
                 ELSE IF Contains(LastSegment(Slug(v)), ".")
                 THEN LET purl == UrlPath(pages[i])
                          dot  == LastIndexOf(purl, ".")
                      IN  /\ dot > Len(ins(i))
                          /\ ~Contains(SubSeq(purl, dot, Len(purl)), "/")
                          /\ SubSeq(purl, dot - Len(ins(i)), dot - 1) = ins(i)
                          /\ CutOut(purl, dot - Len(ins(i)), Len(ins(i))) = url
                 ELSE /\ EndsWith(url, <<"/">>)
                      /\ UrlPath(pages[i]) = url \o UrlSuffix \o <<"/">> \o ToStr(i) \o <<"/">>

\* pages 2 of a slug with and of a slug without a file extension
C16_Witness ==
    /\ callResult # <<>>
    /\ Len(callResult[1]) >= 2
    /\ callArgs.vobj.cfg.slug = SlugHtml
    /\ callArgs.vobj.owner = P_a
    /\ UrlPath(callResult[1][2]) = <<"/", "a", "/", "t", "/", "a", "p", "a", "g", "e", "2", ".", "html">>

\* the children of page i of a list with pages of p children
Window(list, p, i) ==
    SubSeq(list, (i - 1) * p + 1, IF i * p < Len(list) THEN i * p ELSE Len(list))

RECURSIVE ConcatChildren(_)
ConcatChildren(pages) ==
    IF pages = <<>> THEN <<>>
    ELSE Page_children(pages[1]) \o ConcatChildren(Tail(pages))

\* C17: a page exposes as children only the children of its page window, the
\* children of pages 1..ceil(N/P) in order are the full ordered child list,
\* and every other attribute but page_num, path and url_path is the parent's.
C17_PageChildrenWindow ==
    (callResult # <<>> /\ callResult[1] # <<>>) =>
        LET v     == callArgs.vobj
            pages == callResult[1]
        IN  /\ \A i \in 1..Len(pages) :
                   /\ Page_children(pages[i]) = Window(v.children, v.cfg.per_page, i)
                   /\ pages[i].key = v.key /\ pages[i].key_obj = v.key_obj
                   /\ pages[i].cfg = v.cfg /\ pages[i].owner = v.owner
            /\ ConcatChildren(pages) = v.children

\* ------------------------------------------------------------------------
\*   SpecResolver: any sequence of Resolver.add and Resolver.reset calls,
\*   then one resolve_virtual_path
\* ------------------------------------------------------------------------

\* add and reset calls in one run of SpecResolver
MaxCalls == 3

ResTag == Config(RawConfig("tag", P_a, <<>>, TRUE, FALSE, 1))
ResCat == Config(RawConfig("cat", <<>>, ExprIfMany, TRUE, FALSE, 0))
ResNil == Config(RawConfig("nil", <<>>, ExprEmpty, TRUE, FALSE, 0))

\* a finalized source of the group G_a or G_b with n children
ResSource(cfg, key, n) ==
    [owner |-> cfg.root, cfg |-> cfg, key |-> key, key_obj |-> key,
     children |-> NChildren(n), page_num |-> 0, watcher |-> 1]

\* a paginated group with its two pages, a group whose slug is None, a group
\* with a slug, a group whose slug is ''
ResObjects ==
    {ResSource(ResTag, G_a, 2)} \cup Range(IterPaginationSources(ResSource(ResTag, G_a, 2)))
        \cup {ResSource(ResCat, G_a, 1), ResSource(ResCat, G_b, 2),
              ResSource(ResNil, G_a, 1)}

ResetKeys == {<<>>, <<"tag">>, <<"cat">>}

ResPieces ==
    {<<"tag">>} \cup
    {<<ck, gk>> \o pg : ck \in {"tag", "cat"}, gk \in {G_a, G_b},
                        pg \in {<<>>, <<ToStr(1)>>, <<ToStr(2)>>, << <<"x">> >>}}

ResolverInit ==
    /\ PathIdle
    /\ ChildIdle
    /\ WatcherIdle
    /\ OrchestratorIdle
    /\ CallIdle

resolverFrame ==
    <<pathVars, childVars, watcherVars, hostVars, historyVars, plan, exists,
      pending, prePrio, results, building, isBuildAll, hasBeenBuilt, keepAlive,
      cache>>

\* self.resolver.add(vobj)
ResolverAdd(vobj) ==
    /\ callResult = <<>>
    /\ Len(callArgs) < MaxCalls
    /\ resolver' = Resolver_add(resolver, vobj)
    /\ callArgs' = Append(callArgs, [op |-> "add", vobj |-> vobj])
    /\ UNCHANGED <<callResult, resolverFrame>>

\* self.resolver.reset(key) / reset()
ResolverReset(key) ==
    /\ callResult = <<>>
    /\ Len(callArgs) < MaxCalls
    /\ resolver' = Resolver_reset(resolver, key)
    /\ callArgs' = Append(callArgs, [op |-> "reset", key |-> key])
    /\ UNCHANGED <<callResult, resolverFrame>>

\* the host asks for node@groupby/pieces
ResolveVirtualPath(node, pieces) ==
    /\ callResult = <<>>
    /\ callResult' = <<[node |-> node, pieces |-> pieces,
                        rv |-> resolve_virtual_path(resolver, node, pieces)]>>
    /\ UNCHANGED <<resolver, callArgs, resolverFrame>>

ResolverNext ==
    \/ \E vobj \in ResObjects : ResolverAdd(vobj)
    \/ \E key \in ResetKeys : ResolverReset(key)
    \/ \E node \in {P_root, P_a, Asset1}, pieces \in ResPieces :
           ResolveVirtualPath(node, pieces)

SpecResolver == ResolverInit /\ [][ResolverNext]_vars

\* the last call of the run is op
LastCallIs(calls, op) == calls # <<>> /\ calls[Len(calls)].op = op

\* a step of add or reset
IsCallStep == Len(callArgs') = Len(callArgs) + 1

\* C18: Resolver.add indexes only objects with a non-empty slug: after any
\* sequence of add and reset calls every entry of the index stems from an
\* added object with a non-empty slug, and adding an object whose slug is
\* empty or absent leaves the index unchanged.
C18_OnlySluggedIndexed ==
    /\ [](\A k \in DOMAIN resolver : \A url \in DOMAIN resolver[k] :
            \E i \in 1..Len(callArgs) :
                /\ callArgs[i].op = "add"
                /\ Slug(callArgs[i].vobj) \notin {None, <<>>}
                /\ callArgs[i].vobj.cfg.key = k
                /\ UrlPath(callArgs[i].vobj) = url
                /\ resolver[k][url].key = callArgs[i].vobj.key
                /\ resolver[k][url].page = callArgs[i].vobj.page_num)
    /\ [][(IsCallStep /\ LastCallIs(callArgs', "add")
              /\ Slug(callArgs'[Len(callArgs')].vobj) \in {None, <<>>})
            => resolver' = resolver]_vars

\* objects with slug '', None and 'm/b/' were added: one entry
C18_Witness ==
    /\ callArgs = <<[op |-> "add", vobj |-> ResSource(ResNil, G_a, 1)],
                    [op |-> "add", vobj |-> ResSource(ResCat, G_b, 2)],
                    [op |-> "add", vobj |-> ResSource(ResCat, G_a, 1)]>>
    /\ DOMAIN resolver = {"cat"}
    /\ Cardinality(DOMAIN resolver["cat"]) = 1

\* C19: Resolver.reset(key) removes exactly the entries of that grouping key
\* and leaves the entries of every other key unchanged (nothing changes if
\* the key is absent); reset() without a key removes all entries.
C19_ResetRemovesOnlyKey ==
    [][(IsCallStep /\ LastCallIs(callArgs', "reset")) =>
          LET key == callArgs'[Len(callArgs')].key
          IN  IF key = <<>> THEN DOMAIN resolver' = {}
              ELSE /\ DOMAIN resolver' = DOMAIN resolver \ {key[1]}
                   /\ \A k \in DOMAIN resolver' : resolver'[k] = resolver[k]]_vars

\* entries of two keys, then reset('tag'): the entries of 'cat' are left
C19_Witness ==
    /\ callArgs = <<[op |-> "add", vobj |-> ResSource(ResTag, G_a, 2)],
                    [op |-> "add", vobj |-> ResSource(ResCat, G_b, 2)],
                    [op |-> "reset", key |-> <<"tag">>]>>
    /\ DOMAIN resolver = {"cat"}

\* the object of call i is registered: its slug is not empty and neither its
\* key nor the whole index was reset after the call
Registered(calls, i) ==
    /\ calls[i].op = "add"
    /\ Slug(calls[i].vobj) \notin {None, <<>>}
    /\ \A j \in (i + 1)..Len(calls) :
          calls[j].op = "reset" =>
              calls[j].key \notin {<<>>, <<calls[i].vobj.cfg.key>>}

\* the pieces of the virtual path of vobj
PiecesOf(vobj) ==
    <<vobj.cfg.key, vobj.key>>
        \o (IF vobj.page_num # 0 THEN <<ToStr(vobj.page_num)>> ELSE <<>>)

\* C20: resolve_virtual_path on the owning root record with (grouping key,
\* group key, optional page number) returns a GroupBySource with the same
\* grouping key, group key and page number for every registered object with
\* a non-empty slug that has not been reset since, the unpaginated object
\* of a paginated group and each of its pages included.
C20_VirtualPathRoundTrip ==
    callResult # <<>> =>
        \A i \in 1..Len(callArgs) :
            (/\ Registered(callArgs, i)
             /\ callResult[1].node = callArgs[i].vobj.owner
             /\ callResult[1].pieces = PiecesOf(callArgs[i].vobj))
            => /\ callResult[1].rv # <<>>
               /\ callResult[1].rv[1].cfg.key = callArgs[i].vobj.cfg.key
               /\ callResult[1].rv[1].key = callArgs[i].vobj.key
               /\ callResult[1].rv[1].page_num = callArgs[i].vobj.page_num

\* C22: prune deletes a file and removes build-state records only for
\* artifacts whose dependency record carries the namespace marker of the
\* plugin; artifacts without the marker keep their files and their records,
\* whatever the current URL set is.
C22_PruneLeavesOtherArtifacts ==
    pruned # <<>> =>
        LET before == dbBefore[1]
            marked == {r.artifact : r \in {x \in before.artifacts :
                                               x.source = VirtualPruner_VPATH}}
        IN  /\ before.files \ files \subseteq marked
            /\ \A r \in before.artifacts \ artifacts : r.artifact \in marked
            /\ \A r \in before.artifacts : r.artifact \notin marked => r \in artifacts
            /\ \A n \in before.files : n \notin marked => n \in files

\* a prune that removed a marked artifact and left the page of a record, which
\* no current URL names, with its file and its record
C22_Witness ==
    /\ pruned # <<>>
    /\ pruned[1] = {<<"a", ".", "h">>}
    /\ currentUrls = {}
    /\ <<"x", "/", "index.html">> \in files
    /\ [artifact |-> <<"x", "/", "index.html">>, source |-> P_a] \in artifacts
    /\ [artifact |-> <<"x", "/", "index.html">>, source |-> VirtualPruner_VPATH]
           \notin dbBefore[1].artifacts

\* ------------------------------------------------------------------------
\*   SpecPruneSteps: prune statement by statement, with exceptions
\* ------------------------------------------------------------------------

\* the frame of a prune call that has not connected yet
NewPruneFrame ==
    [pc |-> "connect", con |-> "none", fault |-> "none", to_be_pruned |-> {},
     todo |-> {}]

PruneStepsInit ==
    /\ artifacts \in SUBSET {[artifact |-> n, source |-> s] :
                               n \in PruneNames \ {<<"x", "/", "index.html">>},
                               s \in {VirtualPruner_VPATH, P_a}}
    /\ files \in SUBSET PruneNames
    /\ currentUrls \in {{}, {<<"/", "a", ".", "h">>}}
    /\ pruned = <<>>
    /\ dbBefore = <<>>
    /\ GroupByIdle
    /\ HistoryIdle
    /\ WatcherIdle
    /\ PathIdle
    /\ ChildIdle
    /\ callArgs = NewPruneFrame
    /\ callResult = <<>>

pruneStepsFrame ==
    <<currentUrls, pruned, dbBefore, groupbyVars, historyVars, watcherVars,
      pathVars, childVars>>

\* con = builder.connect_to_database()
PruneConnect ==
    /\ callArgs.pc = "connect"
    /\ callArgs' = [callArgs EXCEPT !.con = "open", !.pc = "query"]
    /\ UNCHANGED <<artifacts, files, callResult, pruneStepsFrame>>

\* previous = _query_prunable(con); current = ...; to_be_pruned = ...
PruneQuery ==
    /\ callArgs.pc = "query"
    /\ LET to_be_pruned == query_prunable(artifacts) \ normalize_urls(currentUrls)
       IN  callArgs' = [callArgs EXCEPT !.to_be_pruned = to_be_pruned,
                                        !.todo = to_be_pruned, !.pc = "unlink"]
    /\ dbBefore' = <<[artifacts |-> artifacts, files |-> files,
                      declared |-> declared]>>
    /\ UNCHANGED <<artifacts, files, callResult, currentUrls, pruned,
                   groupbyVars, historyVars, watcherVars, pathVars, childVars>>

\* a loop that removes the record of a file together with the file
PruneUnlinkAndForget(file) ==
    /\ callArgs.pc = "unlink"
    /\ file \in callArgs.todo
    /\ files' = files \ {Strip(file, "/")}
    /\ artifacts' = prune_db_artifacts(artifacts, {file})
    /\ callArgs' = [callArgs EXCEPT !.todo = @ \ {file}]
    /\ UNCHANGED <<callResult, pruneStepsFrame>>

\* for file in to_be_pruned: prune_file_and_folder(...)
PruneUnlink(file) ==
    /\ callArgs.pc = "unlink"
    /\ file \in callArgs.todo
    /\ files' = files \ {Strip(file, "/")}
    /\ callArgs' = [callArgs EXCEPT !.todo = @ \ {file}]
    /\ UNCHANGED <<artifacts, callResult, pruneStepsFrame>>

\* _prune_db_artifacts(con, list(to_be_pruned))
PruneUpdateDb ==
    /\ callArgs.pc = "unlink"
    /\ callArgs.todo = {}
    /\ artifacts' = prune_db_artifacts(artifacts, callArgs.to_be_pruned)
    /\ callArgs' = [callArgs EXCEPT !.pc = "finally"]
    /\ UNCHANGED <<files, callResult, pruneStepsFrame>>

\* the statement of the try block that is about to run
PruneStatement(frame) ==
    IF frame.pc = "query" THEN "query"
    ELSE IF frame.todo # {} THEN "delete" ELSE "update"

\* an exception in the try block: sqlite3.Error of the query or of the
\* DELETE, OSError of prune_file_and_folder
PruneRaise ==
    /\ callArgs.pc \in {"query", "unlink"}
    /\ callArgs' = [callArgs EXCEPT !.fault = PruneStatement(callArgs),
                                    !.pc = "finally"]
    /\ UNCHANGED <<artifacts, files, callResult, pruneStepsFrame>>

\* finally: con.close(), then the return or the exception
PruneFinally ==
    /\ callArgs.pc = "finally"
    /\ callArgs' = prune_finally(callArgs)
    /\ callResult' = <<IF callArgs.fault # "none" THEN "raised" ELSE "returned">>
    /\ UNCHANGED <<artifacts, files, pruneStepsFrame>>

PruneStepsNext ==
    \/ PruneConnect
    \/ PruneQuery
    \/ \E file \in PruneNames : PruneUnlink(file)
    \/ PruneUpdateDb
    \/ PruneRaise
    \/ PruneFinally

SpecPruneSteps == PruneStepsInit /\ [][PruneStepsNext]_vars

\* C21: the connection prune opens is closed on every path out of prune:
\* after a normal return and after an exception raised while querying,
\* deleting files or updating records; the exception leaves prune.
C21_ConnectionClosedOnExit ==
    /\ callArgs.pc = "done" =>
           /\ callArgs.con = "closed"
           /\ callResult = <<IF callArgs.fault \in {"query", "delete", "update"}
                              THEN "raised" ELSE "returned">>
    /\ callResult # <<>> => callArgs.pc = "done"

\* prune has deleted a file, the DELETE raised, and the exception left prune
C21_Witness ==
    /\ callResult = <<"raised">>
    /\ callArgs.fault = "update"
    /\ callArgs.to_be_pruned # {}
    /\ callArgs.con = "closed"

\* C38: build-state records are removed only after the stale files were
\* deleted: if deleting a file raises, no record is removed from the
\* artifacts table in that pass; after a prune that returns normally the
\* table holds no record of a pruned URL and every record of the other URLs.
C38_RecordsRemovedAfterFiles ==
    dbBefore # <<>> =>
        /\ artifacts # dbBefore[1].artifacts =>
               (callArgs.todo = {} /\ callArgs.fault \notin {"query", "delete"})
        /\ callArgs.fault = "delete" => artifacts = dbBefore[1].artifacts
        /\ callResult = <<"returned">> =>
               artifacts = {r \in dbBefore[1].artifacts :
                               r.artifact \notin callArgs.to_be_pruned}

\* two files were stale, one was deleted, deleting the other raised and the
\* exception left prune: the table still holds the records of both
C38_Witness ==
    /\ callResult = <<"raised">>
    /\ callArgs.fault = "delete"
    /\ Cardinality(callArgs.to_be_pruned) = 2
    /\ Cardinality(callArgs.todo) = 1
    /\ \A f \in callArgs.to_be_pruned : \E r \in artifacts : r.artifact = f

\* ------------------------------------------------------------------------
\*   SpecSlugify: Config.slugify on any raw value under any key_map
\* ------------------------------------------------------------------------

\* characters of a raw group value in SpecSlugify
MaxValueLen == 2

RawValues == SeqsUpTo({"a", "A", "b", " ", "_"}, MaxValueLen)

\* Config.set_key_map: every mapping of some of the keys 'a' and 'a b'
KeyMaps ==
    UNION {[D -> {<<"b">>, <<"A">>}] : D \in SUBSET {<<"a">>, <<"a", " ", "b">>}}

SlugifyInit ==
    /\ callArgs \in {[cfg |-> [Config(TagAll) EXCEPT !.key_map = km], k |-> k] :
                         km \in KeyMaps, k \in RawValues}
    /\ callResult = <<>>
    /\ PathIdle
    /\ ChildIdle
    /\ WatcherIdle
    /\ OrchestratorIdle

\* config.slugify(k), and config.slugify of what it returned
SlugifyCall ==
    /\ callResult = <<>>
    /\ callResult' = <<[once  |-> slugify(callArgs.cfg, callArgs.k),
                        twice |-> slugify(callArgs.cfg,
                                          slugify(callArgs.cfg, callArgs.k))]>>
    /\ UNCHANGED <<callArgs, pathVars, childVars, watcherVars, orchestratorVars>>

SlugifyNext == SlugifyCall

SpecSlugify == SlugifyInit /\ [][SlugifyNext]_vars

\* C23: Config.slugify is idempotent: slugify(slugify(v)) = slugify(v) for
\* every raw value v and every key_map.
C23_SlugifyIdempotent ==
    callResult # <<>> => callResult[1].twice = callResult[1].once

\* ------------------------------------------------------------------------
\*   SpecEq: __eq__ and __hash__ on any two GroupBySource instances
\* ------------------------------------------------------------------------

\* page numbers of the instances in SpecEq (0: no page number)
MaxPageNum == 2

EqConfigs ==
    {Config(RawConfig(key, <<>>, slug, TRUE, FALSE, 1)) :
        key \in {"tag", "cat"}, slug \in {<<>>, ExprIfMany}}

EqSources ==
    {[owner |-> owner, cfg |-> cfg, key |-> key, key_obj |-> key,
      children |-> NChildren(n), page_num |-> page_num, watcher |-> 1] :
        owner \in {P_root, P_a}, cfg \in EqConfigs, key \in {G_a, G_b},
        n \in 1..2, page_num \in 0..MaxPageNum}

EqInit ==
    /\ callArgs \in {[self |-> a, other |-> b, same |-> s] :
                         a \in EqSources, b \in EqSources, s \in BOOLEAN}
    /\ callArgs.same => callArgs.self = callArgs.other
    /\ callResult = <<>>
    /\ PathIdle
    /\ ChildIdle
    /\ WatcherIdle
    /\ OrchestratorIdle

\* self == other, hash(self), hash(other)
EqCall ==
    /\ callResult = <<>>
    /\ callResult' = <<[eq |-> GroupBySource_eq(callArgs.self, callArgs.other,
                                                callArgs.same),
                        hash_self  |-> GroupBySource_hash(callArgs.self),
                        hash_other |-> GroupBySource_hash(callArgs.other)]>>
    /\ UNCHANGED <<callArgs, pathVars, childVars, watcherVars, orchestratorVars>>

EqNext == EqCall

SpecEq == EqInit /\ [][EqNext]_vars

\* the virtual path as the claim spells it
VirtualPathOf(v) ==
    v.owner \o <<"@groupby">> \o <<"/", v.cfg.key>> \o <<"/">> \o v.key
        \o (IF v.page_num # 0 THEN <<"/">> \o ToStr(v.page_num) ELSE <<>>)

\* C25: two GroupBySource instances are equal iff their virtual paths are
\* equal and their slugs are equal, equal instances have the same hash, and
\* the virtual path is the path of the owning record, the namespace marker,
\* the grouping key, the group key and, if set, the page number.
C25_EqualIffPathAndSlug ==
    callResult # <<>> =>
        LET a == callArgs.self
            b == callArgs.other
        IN  /\ Path(a) = VirtualPathOf(a)
            /\ callResult[1].eq <=>
                   (VirtualPathOf(a) = VirtualPathOf(b) /\ Slug(a) = Slug(b))
            /\ callResult[1].eq => callResult[1].hash_self = callResult[1].hash_other

\* two different instances of one path whose slugs differ: not equal
C25_Witness ==
    /\ callResult # <<>>
    /\ ~callResult[1].eq
    /\ Path(callArgs.self) = Path(callArgs.other)
    /\ callArgs.self.page_num = 2
    /\ Slug(callArgs.self) = None
    /\ Slug(callArgs.other) # None


\* ------------------------------------------------------------------------
\*   SpecReader: ModelReader on any content model and any record
\* ------------------------------------------------------------------------

\* the most blocks of a flow
MaxBlocks == 2

\* the values of a record: text, a flow of blocks, or the host's Undefined
\* for a field without a value
Undefined == [kind |-> "undefined", s |-> <<>>, blocks |-> <<>>]
StrValue(s) == [kind |-> "str", s |-> s, blocks |-> <<>>]
FlowValue(blocks) == [kind |-> "flow", s |-> <<>>, blocks |-> blocks]

\* `not field`: Undefined, '' and a Flow without blocks are falsy
ValueTruthy(v) ==
    \/ v.kind = "str" /\ v.s # <<>>
    \/ v.kind = "flow" /\ v.blocks # <<>>

\* bool_from_string(f.options.get(attr, False))
bool_from_string(option) ==
    option # <<>> /\ option[1] \in {"true", "yes", "1"}

\* FieldKeyPath(fieldKey, flowIndex=None, flowKey=None): <<>> stands for None
FieldKeyPath(fieldKey, flowIndex, flowKey) ==
    [fieldKey |-> fieldKey, flowIndex |-> flowIndex, flowKey |-> flowKey]

K_flowblock == <<"_", "flowblock">>
K_t == <<"t">>
K_u == <<"u">>
K_p == <<"p">>
K_f == <<"f">>

\* flow[f_key] of a block of a flow
BlockGet(flow, f_key) ==
    flow.data[CHOOSE i \in 1..Len(flow.data) : flow.data[i].k = f_key].v

RECURSIVE ConcatAll(_)
ConcatAll(ss) == IF ss = <<>> THEN <<>> ELSE Head(ss) \o ConcatAll(Tail(ss))

\* the order in which a set is iterated
RECURSIVE SetToSeq(_)
SetToSeq(S) ==
    IF S = {} THEN <<>>
    ELSE LET x == CHOOSE y \in S : TRUE IN <<x>> \o SetToSeq(S \ {x})

\* tmp1 = set(f.name for f in flow.fields if bool_from_string(...))
MarkedNames(fields) ==
    {fields[i].name : i \in {j \in 1..Len(fields) : bool_from_string(fields[j].option)}}

\* '*' for a field with the attribute, '?' for a flow field that may hold a
\* block with the attribute, nothing otherwise
FieldSubs(field, flows) ==
    IF bool_from_string(field.option) THEN <<"*">>
    ELSE IF /\ field.type = "flow"
            /\ DOMAIN flows # {}
            /\ \/ field.flow_blocks = <<>>
               \/ field.flow_blocks[1] \cap DOMAIN flows # {}
         THEN <<"?">>
         ELSE <<>>

RECURSIVE ModelSubs(_, _)
ModelSubs(fields, flows) ==
    IF fields = <<>> THEN <<>>
    ELSE LET s == FieldSubs(Head(fields), flows)
         IN  (IF s = <<>> THEN <<>>
              ELSE <<[name |-> Head(fields).name, subs |-> s[1]]>>)
                 \o ModelSubs(Tail(fields), flows)

\* ModelReader.__init__
ModelReader_init(db, flatten) ==
    LET flows == [key \in {k \in DOMAIN db.flowblocks :
                              MarkedNames(db.flowblocks[k]) # {}} |->
                     MarkedNames(db.flowblocks[key])]
    IN  [flatten |-> flatten,
         flows   |-> flows,
         models  |-> [key \in {k \in DOMAIN db.datamodels :
                                  ModelSubs(db.datamodels[k], flows) # <<>>} |->
                         ModelSubs(db.datamodels[key], flows)]]

\* for f_key, block in flow._data.items(): skip '_...', yield the others
YieldAllSubFields(r_key, i, flow) ==
    LET keep == SelectSeq(flow.data, LAMBDA e : ~StartsWith(e.k, <<"_">>))
    IN  [j \in 1..Len(keep) |->
            [key |-> FieldKeyPath(r_key, <<i>>, keep[j].k), value |-> keep[j].v]]

\* for f_key in self._flows.get(flowtype, []): yield ..., flow[f_key]
YieldMarkedSubFields(self, r_key, i, flow) ==
    LET flowtype == BlockGet(flow, K_flowblock).s[1]
        f_keys == IF flowtype \in DOMAIN self.flows
                  THEN SetToSeq(self.flows[flowtype]) ELSE <<>>
    IN  [j \in 1..Len(f_keys) |->
            [key |-> FieldKeyPath(r_key, <<i>>, f_keys[j]),
             value |-> BlockGet(flow, f_keys[j])]]

\* one round of the loop of read once the field is known to be read
YieldField(self, r_key, subs, field, flatten) ==
    IF subs = "*"
    THEN IF flatten /\ field.kind = "flow"
         THEN ConcatAll([i \in 1..Len(field.blocks) |->
                            YieldAllSubFields(r_key, i - 1, field.blocks[i])])
         ELSE <<[key |-> FieldKeyPath(r_key, <<>>, <<>>), value |-> field]>>
    ELSE ConcatAll([i \in 1..Len(field.blocks) |->
                       YieldMarkedSubFields(self, r_key, i - 1, field.blocks[i])])

\* model.py: field = record[r_key]; if not field: continue
RECURSIVE ModelReader_entries(_, _, _)
ModelReader_entries(self, record, entries) ==
    IF entries = <<>> THEN <<>>
    ELSE LET e == Head(entries)
             field == record.fields[e.name]
         IN  (IF ~ValueTruthy(field) THEN <<>>
              ELSE YieldField(self, e.name, e.subs, field, self.flatten))
                 \o ModelReader_entries(self, record, Tail(entries))

\* a read that never expands a marked flow
read_unflattened(self, record) ==
    [yields |-> IF record.datamodel \in DOMAIN self.models
                THEN ModelReader_entries([self EXCEPT !.flatten = FALSE], record,
                                         self.models[record.datamodel])
                ELSE <<>>,
     raised |-> FALSE]

\* ModelReader.read of model.py
ModelReader_read(self, record) ==
    [yields |-> IF record.datamodel \in DOMAIN self.models
                THEN ModelReader_entries(self, record,
                                         self.models[record.datamodel])
                ELSE <<>>,
     raised |-> FALSE]

\* watcher.py: no test of the field; record[r_key].blocks of a field without
\* a value raises, after the pairs of the fields before it were yielded
RECURSIVE WatcherReader_entries(_, _, _, _)
WatcherReader_entries(self, record, entries, flatten) ==
    IF entries = <<>> THEN [yields |-> <<>>, raised |-> FALSE]
    ELSE LET e == Head(entries)
             field == record.fields[e.name]
         IN  IF e.subs # "*" /\ field.kind # "flow"
             THEN [yields |-> <<>>, raised |-> TRUE]
             ELSE LET rest == WatcherReader_entries(self, record, Tail(entries),
                                                    flatten)
                  IN  [yields |-> YieldField(self, e.name, e.subs, field, flatten)
                                     \o rest.yields,
                       raised |-> rest.raised]

\* ModelReader.read of watcher.py (GroupByModelReader.read of the single file)
WatcherReader_read(self, record, flatten) ==
    IF record.datamodel \in DOMAIN self.models
    THEN WatcherReader_entries(self, record, self.models[record.datamodel],
                               flatten)
    ELSE [yields |-> <<>>, raised |-> FALSE]

\* ---- the content models and the records

FieldDef(name, option, type, flow_blocks) ==
    [name |-> name, option |-> option, type |-> type, flow_blocks |-> flow_blocks]

ReaderDbs ==
    {[flowblocks |->
          [k \in {"bx", "by"} |->
              IF k = "bx"
              THEN <<FieldDef(K_t, ot, "string", <<>>),
                     FieldDef(K_u, ou, "string", <<>>)>>
              ELSE <<FieldDef(K_t, oy, "string", <<>>)>>],
      datamodels |->
          [k \in {"m"} |-> <<FieldDef(K_p, op, "string", <<>>),
                             FieldDef(K_f, of, "flow", fbs)>>]] :
        ot \in {<<>>, <<"yes">>, <<"no">>}, ou \in {<<>>, <<"yes">>},
        oy \in {<<>>, <<"yes">>}, op \in {<<>>, <<"yes">>, <<"no">>},
        of \in {<<>>, <<"yes">>}, fbs \in {<<>>, <<{"bx"}>>, <<{"by"}>>}}

BlockX(t, u) ==
    [data |-> <<[k |-> K_flowblock, v |-> StrValue(<<"bx">>)],
                [k |-> K_t, v |-> t], [k |-> K_u, v |-> u]>>]
BlockY(t) ==
    [data |-> <<[k |-> K_flowblock, v |-> StrValue(<<"by">>)],
                [k |-> K_t, v |-> t]>>]

ReaderBlocks ==
    {BlockX(StrValue(<<"w">>), StrValue(<<"x">>)),
     BlockX(StrValue(<<>>), StrValue(<<"x">>)),
     BlockY(StrValue(<<"y">>))}

ReaderRecords ==
    {[datamodel |-> "m",
      fields |-> [k \in {K_p, K_f} |-> IF k = K_p THEN p ELSE f]] :
        p \in {Undefined, StrValue(<<>>), StrValue(<<"v">>)},
        f \in {Undefined} \cup {FlowValue(bs) : bs \in SeqsUpTo(ReaderBlocks, MaxBlocks)}}

ReaderInit ==
    /\ callArgs \in {[db |-> db, record |-> r, flatten |-> fl] :
                         db \in ReaderDbs, r \in ReaderRecords, fl \in BOOLEAN}
    /\ callResult = <<>>
    /\ PathIdle
    /\ ChildIdle
    /\ WatcherIdle
    /\ OrchestratorIdle

\* list(ModelReader(db, attr, flatten).read(record)) and, for the reader of
\* watcher.py, list(ModelReader(db, attr).read(record, flatten))
ReadCall ==
    /\ callResult = <<>>
    /\ callResult' =
           <<[model   |-> ModelReader_read(
                              ModelReader_init(callArgs.db, callArgs.flatten),
                              callArgs.record),
              watcher |-> WatcherReader_read(
                              ModelReader_init(callArgs.db, callArgs.flatten),
                              callArgs.record, callArgs.flatten)]>>
    /\ UNCHANGED <<callArgs, pathVars, childVars, watcherVars, orchestratorVars>>

ReaderNext == ReadCall

SpecReader == ReaderInit /\ [][ReaderNext]_vars

\* ---- what the contract of read says, from the content model itself

IsMarked(fd) == fd.option # <<>> /\ fd.option[1] = "yes"

MarkedSubFields(db, type) ==
    {db.flowblocks[type][i].name :
        i \in {j \in 1..Len(db.flowblocks[type]) : IsMarked(db.flowblocks[type][j])}}

TransitivelyRelevant(db, fd) ==
    /\ ~IsMarked(fd)
    /\ fd.type = "flow"
    /\ \E type \in DOMAIN db.flowblocks :
          /\ MarkedSubFields(db, type) # {}
          /\ fd.flow_blocks = <<>> \/ type \in fd.flow_blocks[1]

RelevantFields(db, record) ==
    {fd \in Range(db.datamodels[record.datamodel]) :
        IsMarked(fd) \/ TransitivelyRelevant(db, fd)}

BlockKeys(block) == {block.data[i].k : i \in 1..Len(block.data)}

ExpectedOf(db, fd, value, flatten) ==
    IF IsMarked(fd)
    THEN IF fd.type = "flow" /\ flatten
         THEN UNION {{[key |-> FieldKeyPath(fd.name, <<i - 1>>, k),
                       value |-> BlockGet(value.blocks[i], k)] :
                         k \in {x \in BlockKeys(value.blocks[i]) : x[1] # "_"}} :
                       i \in 1..Len(value.blocks)}
         ELSE {[key |-> FieldKeyPath(fd.name, <<>>, <<>>), value |-> value]}
    ELSE UNION {{[key |-> FieldKeyPath(fd.name, <<i - 1>>, k),
                  value |-> BlockGet(value.blocks[i], k)] :
                    k \in MarkedSubFields(db, BlockGet(value.blocks[i], K_flowblock).s[1])} :
                  i \in 1..Len(value.blocks)}

ExpectedPairs(db, record, flatten) ==
    UNION {ExpectedOf(db, fd, record.fields[fd.name], flatten) :
              fd \in RelevantFields(db, record)}

ExactlyExpected(result) ==
    /\ ~result.raised
    /\ Range(result.yields) =
           ExpectedPairs(callArgs.db, callArgs.record, callArgs.flatten)
    /\ Len(result.yields) = Cardinality(Range(result.yields))

C28_ReadSkipsEmpty ==
    callResult # <<>> =>
        \A res \in {callResult[1].model, callResult[1].watcher} :
            /\ ~res.raised
            /\ \A i \in 1..Len(res.yields) :
                   ValueTruthy(callArgs.record.fields[res.yields[i].key.fieldKey])


\* ------------------------------------------------------------------------
\*   SpecIter: one Watcher, its process, iter_sources and initialize calls
\* ------------------------------------------------------------------------

\* the most iter_sources and initialize calls of a run
MaxIterCalls == 2

IterInit ==
    /\ site \in BuildSites
    /\ wcfg = <<Config(TagAll)>>
    /\ wst = <<NewState>>
    /\ failed = FALSE
    /\ plog = <<>>
    /\ callArgs = <<>>
    /\ callResult = <<>>
    /\ PathIdle
    /\ ChildIdle
    /\ OrchestratorIdle

\* list(watcher.iter_sources(root)): the loop over self._state.items() is all
\* there is, the State is the same after it; the call is noted in callResult
IterSourcesCall ==
    /\ Len(callResult) < MaxIterCalls
    /\ callResult' = Append(callResult,
           [op |-> "iter_sources",
            yielded |-> iter_sources(wst[1], wcfg[1].root, wcfg[1], 1)])
    /\ UNCHANGED <<callArgs, pathVars, childVars, watcherVars, orchestratorVars>>

\* watcher.initialize(db): self._state = State()
InitializeCall ==
    /\ Len(callResult) < MaxIterCalls
    /\ wst' = <<NewState>>
    /\ callResult' = Append(callResult, [op |-> "initialize", yielded |-> <<>>])
    /\ UNCHANGED <<site, wcfg, failed, plog, callArgs, pathVars, childVars,
                   orchestratorVars>>

IterNext ==
    \/ \E r \in Records : ProcessCall(r)
    \/ IterSourcesCall
    \/ InitializeCall

SpecIter == IterInit /\ [][IterNext]_vars

\* C32: iter_sources is single-use: once it has yielded the groups of a pass
\* the per-build state is released, and a second iter_sources call on the
\* watcher without a fresh initialize in between yields no group.
C32_IterSourcesSingleUse ==
    \A i, j \in 1..Len(callResult) :
        (/\ i < j
         /\ callResult[i].op = "iter_sources"
         /\ callResult[j].op = "iter_sources"
         /\ \A k \in (i + 1)..(j - 1) : callResult[k].op # "initialize") =>
            callResult[j].yielded = <<>>


\* ------------------------------------------------------------------------
\*   SpecBuildSteps: GroupBy.build_all statement by statement, with a host
\*   builder that may raise
\* ------------------------------------------------------------------------

\* the most objects in the results when build_all is called
MaxResults == 2

BuildSpecifics ==
    {<<>>, <<ResSource(ResCat, G_b, 2)>>, <<ResSource(ResTag, G_a, 2)>>}

BuildStepsInit ==
    /\ results \in SeqsUpTo(ResObjects, MaxResults)
    /\ callArgs \in {[pc |-> "call", specific |-> s, i |-> 1, built |-> <<>>,
                      found |-> <<>>] : s \in BuildSpecifics}
    /\ callResult = <<>>
    /\ plan = <<>> /\ exists = TRUE /\ pending = <<>> /\ prePrio = <<>>
    /\ building = FALSE /\ resolver = <<>>
    /\ isBuildAll = FALSE /\ hasBeenBuilt = {} /\ keepAlive = <<>> /\ cache = {}
    /\ HostIdle
    /\ HistoryIdle
    /\ WatcherIdle
    /\ PathIdle
    /\ ChildIdle

buildStepsFrame ==
    <<site, plan, plog, pathVars, childVars, callResult, isBuildAll, asked,
      currentUrls, pruned, dbBefore>>

\* the plugin and the builder as the running build_all finds them
BuildWorld == [World EXCEPT !.built = callArgs.built]

\* if not self._watcher and not self._results: return
BuildAllReturnEarly ==
    /\ callArgs.pc = "call"
    /\ pending = <<>> /\ results = <<>>
    /\ callArgs' = [callArgs EXCEPT !.pc = "returned"]
    /\ UNCHANGED <<worldVars, buildStepsFrame>>

\* self.make_once(...); self._building = True
BuildAllEnter ==
    /\ callArgs.pc = "call"
    /\ ~(pending = <<>> /\ results = <<>>)
    /\ LET W == make_once(World, IF callArgs.specific # <<>>
                                 THEN <<callArgs.specific[1].cfg.key>> ELSE None)
       IN  /\ Commit([W EXCEPT !.building = TRUE])
           /\ callArgs' = [callArgs EXCEPT !.pc = "loop", !.found = W.results]
    /\ UNCHANGED buildStepsFrame

\* one round of `for vobj in self._results`, the host builder returning
BuildAllStep ==
    /\ callArgs.pc = "loop"
    /\ callArgs.i <= Len(results)
    /\ LET vobj == results[callArgs.i]
           W == IF build_all_selects(vobj, callArgs.specific)
                THEN HostBuild(vobj, BuildWorld) ELSE BuildWorld
       IN  /\ Commit(W)
           /\ callArgs' = [callArgs EXCEPT !.i = @ + 1, !.built = W.built]
    /\ UNCHANGED buildStepsFrame

\* builder.build(vobj, path_cache) raises: no handler in build_all, the
\* exception leaves it
BuildAllHostRaises ==
    /\ callArgs.pc = "loop"
    /\ callArgs.i <= Len(results)
    /\ build_all_selects(results[callArgs.i], callArgs.specific)
    /\ callArgs' = [callArgs EXCEPT !.pc = "raised"]
    /\ UNCHANGED <<worldVars, buildStepsFrame>>

\* del path_cache; self._building = False; self._results.clear()
BuildAllExit ==
    /\ callArgs.pc = "loop"
    /\ callArgs.i > Len(results)
    /\ Commit(EndBuild(BuildWorld, callArgs.specific, callArgs.found))
    /\ callArgs' = [callArgs EXCEPT !.pc = "returned"]
    /\ UNCHANGED buildStepsFrame

BuildStepsNext ==
    \/ BuildAllReturnEarly
    \/ BuildAllEnter
    \/ BuildAllStep
    \/ BuildAllHostRaises
    \/ BuildAllExit

SpecBuildSteps == BuildStepsInit /\ [][BuildStepsNext]_vars

\* C34: isBuilding is true only while build_all executes its build loop:
\* once build_all has returned, or has been left by an exception of the host
\* builder, isBuilding is false.
C34_NotBuildingOutsideLoop ==
    callArgs.pc \in {"returned", "raised"} => ~building

(***************************************************************************)
(* Back-references: WeakVGroupsList and VGroups.iter (backref.py).  The    *)
(* materialized GroupBySource objects are held strongly by the results    *)
(* list of GroupBy only; a record holds (FieldKeyPath, weak reference)     *)
(* entries.  The frame in callArgs holds the entries of one record and the *)
(* objects the runtime has reclaimed; callResult holds the last query.     *)
(***************************************************************************)
MaxBackrefs == 2

BackrefKeys == {<<>>, <<"tag">>, <<"cat">>}

\* weakref.ref(obj)(): <<referent>> while it lives, <<>> (None) once reclaimed
Deref(entry, freed) == IF entry.weak \in freed THEN <<>> ELSE <<entry.weak>>

\* super().append((strong, weakref.ref(weak)))
WeakVGroupsList_add(list, strong, weak) ==
    Append(list, [strong |-> strong, weak |-> weak])

\* the `for key, vobj in VGroups.of(page)` loop of VGroups.iter from entry i
\* on, without fields and flows filter: `read` lists what each vobj() call
\* returned, `done` is done_list, `raised` is set when vobj().config is
\* evaluated on None
RECURSIVE IterEntries(_, _, _, _, _)
IterEntries(list, keys, freed, i, acc) ==
    IF i > Len(list) THEN acc
    ELSE LET d == Deref(list[i], freed)
         IN  IF keys # <<>>
             THEN IF d = <<>>
                  THEN [acc EXCEPT !.read = Append(@, d), !.raised = TRUE]
                  ELSE IF d[1].cfg.key \notin Range(keys)
                       THEN IterEntries(list, keys, freed, i + 1,
                                [acc EXCEPT !.read = Append(@, d)])
                       ELSE IterEntries(list, keys, freed, i + 1,
                                [acc EXCEPT !.read = Append(Append(@, d), d),
                                            !.done = Append(@, d)])
             ELSE IterEntries(list, keys, freed, i + 1,
                      [acc EXCEPT !.read = Append(@, d), !.done = Append(@, d)])

\* VGroups.iter(record, keys): the loop, then `vobj.config.dependencies` for
\* every member of done_list, which raises on a None member
VGroups_iter(list, keys, freed) ==
    LET r == IterEntries(list, keys, freed, 1,
                         [read |-> <<>>, done |-> <<>>, raised |-> FALSE])
    IN  [r EXCEPT !.raised = r.raised \/ \E j \in 1..Len(r.done) : r.done[j] = <<>>]

BackrefInit ==
    /\ callArgs = [vgroups |-> <<>>, freed |-> {}]
    /\ callResult = <<>>
    /\ results = <<>>
    /\ plan = <<>> /\ exists = TRUE /\ pending = <<>> /\ prePrio = <<>>
    /\ building = FALSE /\ resolver = <<>>
    /\ isBuildAll = FALSE /\ hasBeenBuilt = {} /\ keepAlive = <<>> /\ cache = {}
    /\ HostIdle
    /\ HistoryIdle
    /\ WatcherIdle
    /\ PathIdle
    /\ ChildIdle

backrefFrame ==
    <<pathVars, childVars, watcherVars, hostVars, historyVars, plan, exists,
      pending, prePrio, building, resolver, isBuildAll, hasBeenBuilt,
      keepAlive, cache>>

\* make_once puts a group of the watcher into the results list; the group is
\* back-referenced from its child record
BackrefMake(vobj, strong) ==
    /\ Len(callArgs.vgroups) < MaxBackrefs
    /\ vobj \notin Range(results) \cup callArgs.freed
    /\ \A i \in 1..Len(callArgs.vgroups) : callArgs.vgroups[i].weak # vobj
    /\ results' = Append(results, vobj)
    /\ callArgs' = [callArgs EXCEPT
                       !.vgroups = WeakVGroupsList_add(@, strong, vobj)]
    /\ UNCHANGED <<callResult, backrefFrame>>

\* self._results.clear()  # garbage collect weak refs
\* the objects nothing else holds are reclaimed
BackrefClear(gone) ==
    /\ results # <<>>
    /\ results' = <<>>
    /\ callArgs' = [callArgs EXCEPT !.freed = @ \cup gone]
    /\ UNCHANGED <<callResult, backrefFrame>>

\* the vgroups filter of a template; no watcher is pending, make_once(keys)
\* has nothing to do
VGroupsIterCall(keys) ==
    /\ pending = <<>>
    /\ callResult' = <<VGroups_iter(callArgs.vgroups, keys, callArgs.freed)>>
    /\ UNCHANGED <<callArgs, results, backrefFrame>>

BackrefNext ==
    \/ \E vobj \in ResObjects, strong \in {K_t, K_u} : BackrefMake(vobj, strong)
    \/ \E gone \in SUBSET Range(results) : BackrefClear(gone)
    \/ \E keys \in BackrefKeys : VGroupsIterCall(keys)

SpecBackref == BackrefInit /\ [][BackrefNext]_vars

\* C35: back-references are never dereferenced after release: every weak
\* reference VGroups.iter reads yields a live GroupBySource, also when the
\* query runs after build_all has cleared the results list.
C35_ReadsOnlyLiveGroups ==
    \A i \in 1..Len(callResult) :
        \A j \in 1..Len(callResult[i].read) : callResult[i].read[j] # <<>>

(***************************************************************************)
(* The original value of a group through the resolver: objects of every    *)
(* kind of key_obj are registered and resolved again (resolver.py,         *)
(* GroupBySource.finalize).                                                *)
(***************************************************************************)
\* a group of the watcher 'cat' with two children and the original value
KeyObjSource(key, key_obj) == [ResSource(ResCat, key, 2) EXCEPT !.key_obj = key_obj]

\* the groups of 'a', False, 0 and '', and of 'b' whose original value is 'B'
KeyObjObjects ==
    {KeyObjSource(G_a, G_a), KeyObjSource(G_b, <<"B">>),
     KeyObjSource(<<"f", "a", "l", "s", "e">>, PyFalse),
     KeyObjSource(ToStr(0), PyZero), KeyObjSource(<<>>, <<>>)}

KeyObjKeys == {v.key : v \in KeyObjObjects}

\* the host asks for the page below node that answers the url pieces
ResolveServerPath(node, pieces) ==
    /\ callResult = <<>>
    /\ callResult' = <<[node |-> node, pieces |-> pieces,
                        rv |-> resolve_server_path(resolver, node, pieces)]>>
    /\ UNCHANGED <<resolver, callArgs, resolverFrame>>

KeyObjNext ==
    \/ \E vobj \in KeyObjObjects : ResolverAdd(vobj)
    \/ \E node \in {P_root, Asset1}, k \in KeyObjKeys :
           ResolveVirtualPath(node, <<"cat", k>>)
    \/ \E node \in {P_root, Asset1}, k \in KeyObjKeys :
           ResolveServerPath(node, << <<"m">>, k >>)

SpecKeyObj == ResolverInit /\ [][KeyObjNext]_vars

\* C36: resolver reconstruction preserves the original group value: the
\* GroupBySource that resolve_server_path or resolve_virtual_path returns
\* for a registered object has the key_obj of that object, whatever kind of
\* value it is, False, 0 and '' included.
C36_ResolvedKeepsKeyObj ==
    (callResult # <<>> /\ callResult[1].rv # <<>>) =>
        \A i \in 1..Len(callArgs) :
            (/\ Registered(callArgs, i)
             /\ callArgs[i].vobj.cfg.key = callResult[1].rv[1].cfg.key
             /\ callArgs[i].vobj.key = callResult[1].rv[1].key
             /\ callArgs[i].vobj.page_num = callResult[1].rv[1].page_num)
            => callResult[1].rv[1].key_obj = callArgs[i].vobj.key_obj

====
